---- MODULE Spec2Model ----
(***************************************************************************)
(* Model of the scoring-and-calibration engine of agentjustice.            *)
(*                                                                         *)
(* Numbers.  Judge scores, confidences and the ScorerConfig weights are    *)
(* fixed-point values in hundredths (One = 1.00).  A product of a weight   *)
(* and a confidence, and every quantity added to or compared with such a   *)
(* product (base_score, the three penalties, final_score), is in           *)
(* ten-thousandths (One * One = 1.00).  The arithmetic is exact; the       *)
(* rounding of binary floating point is not modelled.                      *)
(*                                                                         *)
(* Strings are sequences of one-character strings.                         *)
(*                                                                         *)
(* Each component has its own specification over its own variables; the    *)
(* variables of the other components stay at their idle values there.      *)
(*   Spec        HybridScorer.compute                                      *)
(*   SplitsSpec  KFoldCV.generate_splits                                   *)
(*   RunSpec     KFoldCV.run                                               *)
(*   StabSpec    StabilityTester.test                                      *)
(*   HashSpec    core.hashing: hash_string, hash_dict, hash_file           *)
(*   LogSpec     AuditLogger.log_trace under concurrent callers            *)
(*   PipeSpec    contradiction judge, MCP client and HybridScorer.compute  *)
(*   SingletonSpec  get_scorer                                             *)
(***************************************************************************)
EXTENDS Integers, Sequences, FiniteSets, TLC

VARIABLES
  config,                \* HybridScorer.config (a ScorerConfig)
  semantic_output,       \* arguments of the pending compute() call
  numeric_output,
  contradiction_output,
  model_answer,
  gold_answer,
  result,                \* the HybridScore returned, NoResult before the call returns
  pc                     \* "call" before compute() has run, "returned" after

VARIABLES
  cvs,                   \* the KFoldCV instances, by instance number
  split_calls            \* the generate_splits calls made so far, with what they returned

VARIABLES
  run_pc,                \* KFoldCV.run: "idle", "start", "loop", "returned" or "raised"
  run_cv,                \* the KFoldCV instance run() is called on
  tasks,                 \* argument tasks
  param_grid,            \* argument param_grid: its keys and their value lists, in order
  run_splits,            \* local splits of run()
  cell,                  \* how many (combination, split) cells have been completed
  all_results,           \* local all_results
  invocations,           \* the calls of evaluate_fn made so far, with their arguments
  calibration            \* the CalibrationResult returned, NoCalibration before

VARIABLES
  stab_pc,               \* StabilityTester.test: "idle", "start", "loop", "returned" or "raised"
  tester,                \* the StabilityTester instance test() is called on
  stab_tasks,            \* argument tasks
  evaluator,             \* which evaluate_fn is passed
  task_scores,           \* local scores of the task being evaluated
  per_task,              \* local per_task
  stab_invocations,      \* the calls of evaluate_fn made so far, with their outcomes
  report                 \* the StabilityReport returned, NoReport before

VARIABLES
  USE_XXHASH,            \* core.hashing.USE_XXHASH: whether import xxhash succeeded
  hash_args,             \* the calls of hash_string, hash_dict and hash_file to make
  hash_calls             \* the calls made so far, with what they returned or raised

VARIABLES
  traces,                \* AuditLogger.log_trace: the trace each thread logs
  log_pc,                \* where each thread is in log_trace
  lock,                  \* self._lock: the thread holding it, NoThread if free
  canonical_count,       \* self.canonical_count
  adversarial_count,     \* self.adversarial_count
  error_count,           \* self.error_count
  loaded,                \* the counter value each thread has read for its +=
  canonical_file,        \* canonical_traces.jsonl, as the pieces written to it
  adversarial_file       \* adversarial_traces.jsonl, as the pieces written to it

VARIABLES
  pipe_pc,               \* the contradiction pipeline: "idle", "judge", "endpoint",
                         \* "client", "score" or "done"
  pipe_inputs,           \* the scorer's config, the other judges' outputs, the answers
  judge_result,          \* what ContradictionJudge.judge returned
  http_response,         \* the response of the /judge/contradiction endpoint
  client_output,         \* what MCPClient.call_contradiction_judge returned
  hybrid_score           \* the HybridScore computed from it

VARIABLES
  scorer_instance,       \* green_agent.scorer._scorer_instance
  instances,             \* the HybridScorer objects created so far
  get_calls              \* the get_scorer calls made so far, with what they returned

scorerVars == << config, semantic_output, numeric_output, contradiction_output,
                 model_answer, gold_answer, result, pc >>

splitVars == << cvs, split_calls >>

runVars == << run_pc, run_cv, tasks, param_grid, run_splits, cell, all_results,
             invocations, calibration >>

stabVars == << stab_pc, tester, stab_tasks, evaluator, task_scores, per_task,
              stab_invocations, report >>

hashVars == << USE_XXHASH, hash_args, hash_calls >>

logVars == << traces, log_pc, lock, canonical_count, adversarial_count, error_count,
             loaded, canonical_file, adversarial_file >>

pipeVars == << pipe_pc, pipe_inputs, judge_result, http_response, client_output,
              hybrid_score >>

singletonVars == << scorer_instance, instances, get_calls >>

vars == << scorerVars, splitVars, runVars, stabVars, hashVars, logVars, pipeVars,
          singletonVars >>

\* no KFoldCV instance exists and generate_splits is never called
SplitsIdle == cvs = << >> /\ split_calls = << >>

NoCalibration == [ returned |-> FALSE ]

\* KFoldCV.run is never called
RunIdle ==
  /\ run_pc = "idle"
  /\ run_cv = << >>
  /\ tasks = << >>
  /\ param_grid = << >>
  /\ run_splits = << >>
  /\ cell = 0
  /\ all_results = << >>
  /\ invocations = << >>
  /\ calibration = NoCalibration

NoReport == [ returned |-> FALSE ]

\* StabilityTester.test is never called
StabIdle ==
  /\ stab_pc = "idle"
  /\ tester = << >>
  /\ stab_tasks = << >>
  /\ evaluator = "none"
  /\ task_scores = << >>
  /\ per_task = << >>
  /\ stab_invocations = << >>
  /\ report = NoReport

\* no function of core.hashing is called
HashIdle ==
  /\ USE_XXHASH = FALSE
  /\ hash_args = << >>
  /\ hash_calls = << >>

NoThread == 0

\* no thread calls AuditLogger.log_trace
LogIdle ==
  /\ traces = << >>
  /\ log_pc = << >>
  /\ lock = NoThread
  /\ canonical_count = 0
  /\ adversarial_count = 0
  /\ error_count = 0
  /\ loaded = << >>
  /\ canonical_file = << >>
  /\ adversarial_file = << >>

\* no task goes through the contradiction pipeline
PipeIdle ==
  /\ pipe_pc = "idle"
  /\ pipe_inputs = << >>
  /\ judge_result = << >>
  /\ http_response = << >>
  /\ client_output = << >>
  /\ hybrid_score = [ returned |-> FALSE ]

\* get_scorer is never called
SingletonIdle ==
  /\ scorer_instance = 0
  /\ instances = << >>
  /\ get_calls = << >>

\* 1.00 in hundredths
One == 100

Max(a, b) == IF a >= b THEN a ELSE b

----------------------------------------------------------------------------
\* Strings

UpperChars == <<"A", "B", "C", "D", "E", "F", "G", "H", "I", "J", "K", "L", "M", "N", "O", "P", "Q", "R", "S", "T", "U", "V", "W", "X", "Y", "Z">>
LowerChars == <<"a", "b", "c", "d", "e", "f", "g", "h", "i", "j", "k", "l", "m", "n", "o", "p", "q", "r", "s", "t", "u", "v", "w", "x", "y", "z">>

\* the lower-case form of every upper-case letter
LowerMap ==
  [ c \in { UpperChars[i] : i \in 1..Len(UpperChars) } |->
      LowerChars[CHOOSE i \in 1..Len(UpperChars) : UpperChars[i] = c] ]

LowerChar(c) == IF c \in DOMAIN LowerMap THEN LowerMap[c] ELSE c

\* str.lower()
Lower(s) == [i \in 1..Len(s) |-> LowerChar(s[i])]

\* the Python operator "h in s" on strings
Contains(s, h) ==
  \E i \in 1..(Len(s) - Len(h) + 1) : SubSeq(s, i, i + Len(h) - 1) = h

IsSpace(c) == c \in {" ", "\t", "\n"}

\* str.split(): the maximal runs of non-whitespace characters, in order
RECURSIVE SplitFrom(_, _, _)
SplitFrom(s, i, cur) ==
  IF i > Len(s) THEN (IF cur = << >> THEN << >> ELSE << cur >>)
  ELSE IF IsSpace(s[i])
    THEN (IF cur = << >> THEN << >> ELSE << cur >>) \o SplitFrom(s, i + 1, << >>)
    ELSE SplitFrom(s, i + 1, Append(cur, s[i]))

Split(s) == SplitFrom(s, 1, << >>)

\* " ".join(words)
RECURSIVE Join(_)
Join(words) ==
  IF words = << >> THEN << >>
  ELSE IF Len(words) = 1 THEN words[1]
  ELSE words[1] \o << " " >> \o Join(Tail(words))

\* normalize() of compute_exact_match; split() already drops what strip() drops
normalize(s) == Join(Split(Lower(s)))

compute_exact_match(model, gold) == normalize(model) = normalize(gold)

----------------------------------------------------------------------------
\* Types

\* Optional[float] and Optional[bool] fields hold None or a value
None == "None"

\* The fields of JudgeOutput that HybridScorer reads.  violated is None, TRUE or
\* FALSE, written "None", "True", "False"; tolerance_used is the empty set for
\* None and {t} for the value t; parsed_gold_values is a list.
JudgeOutput(score, confidence, judge_ok, tolerance_used, parsed_gold_values, violated) ==
  [ score |-> score, confidence |-> confidence, judge_ok |-> judge_ok,
    tolerance_used |-> tolerance_used, parsed_gold_values |-> parsed_gold_values,
    violated |-> violated ]

\* ScorerConfig defaults
DefaultNumericRelTol == 1
DefaultSemanticConfThreshold == 70
DefaultConsistencyPenalty == 20
DefaultContradictionPenalty == 50
DefaultHedgingPenalty == 10

ScorerConfig(rel_tol, conf_threshold, consistency, contradiction, hedging) ==
  [ numeric_rel_tol |-> rel_tol, semantic_conf_threshold |-> conf_threshold,
    consistency_penalty |-> consistency, contradiction_penalty |-> contradiction,
    hedging_penalty |-> hedging ]

scorer_config ==
  ScorerConfig(DefaultNumericRelTol, DefaultSemanticConfThreshold,
               DefaultConsistencyPenalty, DefaultContradictionPenalty,
               DefaultHedgingPenalty)

NoResult == [ returned |-> FALSE ]

----------------------------------------------------------------------------
\* HybridScorer.compute, section by section

\* Faulty variant of ErrorTaxonomy: a failed contradiction judge is not recorded.
ErrorTaxonomyNoContradiction(semantic_ok, numeric_ok, contradiction_ok) ==
  (IF ~semantic_ok THEN << "semantic_judge_error" >> ELSE << >>)
  \o (IF ~numeric_ok THEN << "numeric_judge_error" >> ELSE << >>)

\* the judge_ok checks: error_taxonomy in append order
ErrorTaxonomy(semantic_ok, numeric_ok, contradiction_ok) ==
  (IF ~semantic_ok THEN << "semantic_judge_error" >> ELSE << >>)
  \o (IF ~numeric_ok THEN << "numeric_judge_error" >> ELSE << >>)
  \o (IF ~contradiction_ok THEN << "contradiction_judge_error" >> ELSE << >>)

\* semantic_score / numeric_score: the reported score only if the judge succeeded
UsableScore(output, ok) == IF ok THEN output.score ELSE 0

\* Faulty variant of ContradictionViolated: trusts violated of a failed call.
ContradictionViolatedUngated(output, contradiction_ok) ==
  output.violated = "True"

ContradictionViolated(output, contradiction_ok) ==
  IF contradiction_ok /\ output.violated # None
    THEN output.violated = "True"
    ELSE FALSE

ExactMatch(model, gold) ==
  IF model # << >> /\ gold # << >> THEN compute_exact_match(model, gold) ELSE FALSE

PassThreshold == 80
FailThreshold == 30
Half == 50

\* Faulty variant of BaseScore: averages the two scores whenever one is usable.
BaseScoreAlwaysAverage(semantic_ok, numeric_ok, semantic_score, numeric_score, numeric) ==
  IF ~semantic_ok /\ ~numeric_ok
    THEN [ base_score |-> 0, flags |-> << "all_judges_failed" >> ]
    ELSE [ base_score |-> semantic_score * Half + numeric_score * Half,
           flags |-> << >> ]

\* base_score (ten-thousandths) and the flags its branch appends
BaseScore(semantic_ok, numeric_ok, semantic_score, numeric_score, numeric) ==
  IF ~semantic_ok /\ ~numeric_ok
    THEN [ base_score |-> 0, flags |-> << "all_judges_failed" >> ]
  ELSE IF ~semantic_ok
    THEN [ base_score |-> numeric_score * One,
           flags |-> << "semantic_judge_unavailable" >> ]
  ELSE IF ~numeric_ok
    THEN [ base_score |-> semantic_score * One, flags |-> << >> ]
  ELSE IF numeric.tolerance_used = {} \/ numeric.parsed_gold_values = << >>
    THEN [ base_score |-> semantic_score * One, flags |-> << >> ]
  ELSE [ base_score |-> semantic_score * Half + numeric_score * Half,
         flags |-> << >> ]

\* Faulty variant of ConsistencyCheck: the judge_ok guards are missing, so the
\* zero score of a failed judge counts as a disagreement.
ConsistencyCheckUngated(cfg, semantic, numeric, semantic_score, numeric_score) ==
  LET max_conf == Max(semantic.confidence, numeric.confidence)
      case1 == semantic_score > PassThreshold /\ numeric_score < FailThreshold
      case2 == numeric_score > PassThreshold /\ semantic_score < FailThreshold
  IN [ consistency_penalty |->
         (IF case1 THEN cfg.consistency_penalty * max_conf ELSE 0)
         + (IF case2 THEN cfg.consistency_penalty * max_conf ELSE 0),
       flags |-> (IF case1 THEN << "numeric_error" >> ELSE << >>)
                 \o (IF case2 THEN << "wrong_metric" >> ELSE << >>) ]

\* Faulty variant of ConsistencyCheck: scales by the smaller confidence.
ConsistencyCheckMinConf(cfg, semantic, numeric, semantic_score, numeric_score) ==
  LET min_conf == IF semantic.confidence <= numeric.confidence
                    THEN semantic.confidence ELSE numeric.confidence
      case1 == semantic.judge_ok /\ numeric.judge_ok /\ semantic_score > PassThreshold
                 /\ numeric_score < FailThreshold
      case2 == semantic.judge_ok /\ numeric.judge_ok /\ numeric_score > PassThreshold
                 /\ semantic_score < FailThreshold
  IN [ consistency_penalty |->
         (IF case1 THEN cfg.consistency_penalty * min_conf ELSE 0)
         + (IF case2 THEN cfg.consistency_penalty * min_conf ELSE 0),
       flags |-> (IF case1 THEN << "numeric_error" >> ELSE << >>)
                 \o (IF case2 THEN << "wrong_metric" >> ELSE << >>) ]

\* Faulty variant of ConsistencyCheck: skipped when the numeric output is not
\* relevant to the base score.
ConsistencyCheckRelevantOnly(cfg, semantic, numeric, semantic_score, numeric_score) ==
  LET max_conf == Max(semantic.confidence, numeric.confidence)
      relevant == numeric.tolerance_used # {} /\ numeric.parsed_gold_values # << >>
      case1 == semantic.judge_ok /\ numeric.judge_ok /\ semantic_score > PassThreshold
                 /\ numeric_score < FailThreshold /\ relevant
      case2 == semantic.judge_ok /\ numeric.judge_ok /\ numeric_score > PassThreshold
                 /\ semantic_score < FailThreshold /\ relevant
  IN [ consistency_penalty |->
         (IF case1 THEN cfg.consistency_penalty * max_conf ELSE 0)
         + (IF case2 THEN cfg.consistency_penalty * max_conf ELSE 0),
       flags |-> (IF case1 THEN << "numeric_error" >> ELSE << >>)
                 \o (IF case2 THEN << "wrong_metric" >> ELSE << >>) ]

\* Case 1 and Case 2 of the consistency checks
ConsistencyCheck(cfg, semantic, numeric, semantic_score, numeric_score) ==
  LET max_conf == Max(semantic.confidence, numeric.confidence)
      case1 == semantic.judge_ok /\ numeric.judge_ok /\ semantic_score > PassThreshold
                 /\ numeric_score < FailThreshold
      case2 == semantic.judge_ok /\ numeric.judge_ok /\ numeric_score > PassThreshold
                 /\ semantic_score < FailThreshold
  IN [ consistency_penalty |->
         (IF case1 THEN cfg.consistency_penalty * max_conf ELSE 0)
         + (IF case2 THEN cfg.consistency_penalty * max_conf ELSE 0),
       flags |-> (IF case1 THEN << "numeric_error" >> ELSE << >>)
                 \o (IF case2 THEN << "wrong_metric" >> ELSE << >>) ]

\* Faulty variant of ContradictionPenalty: scales by the judge's doubt.
ContradictionPenaltyInverted(cfg, contradiction_ok, contradiction_violated, confidence) ==
  IF contradiction_ok /\ contradiction_violated
    THEN [ contradiction_penalty |-> cfg.contradiction_penalty * (One - confidence),
           flags |-> << "contradiction_violated" >> ]
    ELSE [ contradiction_penalty |-> 0, flags |-> << >> ]

ContradictionPenalty(cfg, contradiction_ok, contradiction_violated, confidence) ==
  IF contradiction_ok /\ contradiction_violated
    THEN [ contradiction_penalty |-> cfg.contradiction_penalty * confidence,
           flags |-> << "contradiction_violated" >> ]
    ELSE [ contradiction_penalty |-> 0, flags |-> << >> ]

hedging_indicators ==
  << <<"i", "'", "m", " ", "n", "o", "t", " ", "s", "u", "r", "e">>,
     <<"i", " ", "a", "m", " ", "n", "o", "t", " ", "s", "u", "r", "e">>,
     <<"n", "o", "t", " ", "c", "e", "r", "t", "a", "i", "n">>,
     <<"u", "n", "c", "e", "r", "t", "a", "i", "n", " ", "a", "b", "o", "u", "t">>,
     <<"u", "n", "s", "u", "r", "e", " ", "a", "b", "o", "u", "t">>,
     <<"u", "n", "s", "u", "r", "e", " ", "w", "h", "e", "t", "h", "e", "r">>,
     <<"m", "i", "g", "h", "t", " ", "b", "e", " ", "w", "r", "o", "n", "g">>,
     <<"c", "o", "u", "l", "d", " ", "b", "e", " ", "w", "r", "o", "n", "g">>,
     <<"m", "a", "y", " ", "b", "e", " ", "i", "n", "c", "o", "r", "r", "e", "c", "t">>,
     <<"i", " ", "d", "o", "n", "'", "t", " ", "k", "n", "o", "w">>,
     <<"i", " ", "d", "o", " ", "n", "o", "t", " ", "k", "n", "o", "w">>,
     <<"c", "a", "n", "n", "o", "t", " ", "d", "e", "t", "e", "r", "m", "i", "n", "e">>,
     <<"p", "o", "s", "s", "i", "b", "l", "y", " ", "i", "n", "c", "o", "r", "r", "e", "c", "t">>,
     <<"p", "o", "t", "e", "n", "t", "i", "a", "l", "l", "y", " ", "w", "r", "o", "n", "g">>,
     <<"i", " ", "t", "h", "i", "n", "k", " ", "i", "t", " ", "m", "i", "g", "h", "t">>,
     <<"i", " ", "b", "e", "l", "i", "e", "v", "e", " ", "i", "t", " ", "c", "o", "u", "l", "d">>,
     <<"i", "t", " ", "s", "e", "e", "m", "s", " ", "l", "i", "k", "e", " ", "m", "a", "y", "b", "e">>,
     <<"t", "h", "i", "s", " ", "c", "o", "u", "l", "d", " ", "p", "o", "s", "s", "i", "b", "l", "y">>,
     <<"t", "h", "i", "s", " ", "m", "i", "g", "h", "t", " ", "p", "o", "s", "s", "i", "b", "l", "y">> >>

\* sum(1 for h in hedging_indicators if h in model_lower)
HedgingCount(model_lower) ==
  Cardinality({ i \in 1..Len(hedging_indicators) :
                  Contains(model_lower, hedging_indicators[i]) })

\* Faulty variant of HedgingPenalty: charges the weight once per matched phrase.
HedgingPenaltyPerMatch(cfg, model) ==
  IF model # << >> /\ HedgingCount(Lower(model)) >= 1
    THEN [ hedging_penalty |-> cfg.hedging_penalty * One * HedgingCount(Lower(model)),
           flags |-> << "hedged_answer" >> ]
    ELSE [ hedging_penalty |-> 0, flags |-> << >> ]

\* hedging_penalty (ten-thousandths: the weight times 1.00)
HedgingPenalty(cfg, model) ==
  IF model # << >> /\ HedgingCount(Lower(model)) >= 1
    THEN [ hedging_penalty |-> cfg.hedging_penalty * One,
           flags |-> << "hedged_answer" >> ]
    ELSE [ hedging_penalty |-> 0, flags |-> << >> ]

\* Faulty variant of FinalScore: the clamp at zero is missing.
FinalScoreUnclamped(base_score, total_penalty) == base_score - total_penalty

FinalScore(base_score, total_penalty) == Max(0, base_score - total_penalty)

\* Faulty variant of Confidences: only the judges that succeeded are averaged.
ConfidencesOfOkJudges(semantic, numeric, contradiction) ==
  (IF semantic.judge_ok THEN << semantic.confidence >> ELSE << >>)
  \o (IF numeric.judge_ok THEN << numeric.confidence >> ELSE << >>)
  \o (IF contradiction.judge_ok THEN << contradiction.confidence >> ELSE << >>)

\* the list confidences
Confidences(semantic, numeric, contradiction) ==
  << semantic.confidence, numeric.confidence, contradiction.confidence >>

RECURSIVE Sum(_)
Sum(xs) == IF xs = << >> THEN 0 ELSE Head(xs) + Sum(Tail(xs))

\* sum(confidences) / len(confidences) if confidences else 0.0, kept as the
\* exact fraction num / den
AvgConfidence(confidences) ==
  IF confidences # << >>
    THEN [ num |-> Sum(confidences), den |-> Len(confidences) ]
    ELSE [ num |-> 0, den |-> 1 ]

\* The HybridScore compute() returns.  base_score is compute's local variable,
\* kept beside the fields so that statements about it can be checked.
compute(cfg, semantic, numeric, contradiction, model, gold) ==
  LET semantic_ok == semantic.judge_ok
      numeric_ok == numeric.judge_ok
      contradiction_ok == contradiction.judge_ok
      semantic_score == UsableScore(semantic, semantic_ok)
      numeric_score == UsableScore(numeric, numeric_ok)
      contradiction_violated == ContradictionViolated(contradiction, contradiction_ok)
      base == BaseScore(semantic_ok, numeric_ok, semantic_score, numeric_score, numeric)
      cons == ConsistencyCheck(cfg, semantic, numeric, semantic_score, numeric_score)
      contra == ContradictionPenalty(cfg, contradiction_ok, contradiction_violated,
                                     contradiction.confidence)
      hedge == HedgingPenalty(cfg, model)
      total_penalty == cons.consistency_penalty + contra.contradiction_penalty
                         + hedge.hedging_penalty
  IN [ returned |-> TRUE,
       exact_match |-> ExactMatch(model, gold),
       semantic_score |-> semantic_score,
       numeric_score |-> numeric_score,
       contradiction_violated |-> contradiction_violated,
       consistency_penalty |-> cons.consistency_penalty,
       contradiction_penalty |-> contra.contradiction_penalty,
       hedging_penalty |-> hedge.hedging_penalty,
       final_score |-> FinalScore(base.base_score, total_penalty),
       confidence |-> AvgConfidence(Confidences(semantic, numeric, contradiction)),
       consistency_flags |-> base.flags \o cons.flags \o contra.flags \o hedge.flags,
       error_taxonomy |-> ErrorTaxonomy(semantic_ok, numeric_ok, contradiction_ok),
       base_score |-> base.base_score ]

----------------------------------------------------------------------------
\* Inputs

\* how many fragments an enumerated model answer is built from, at most
MaxFragments == 2

\* 'Approximately  5 '
FragApprox == <<"A", "p", "p", "r", "o", "x", "i", "m", "a", "t", "e", "l", "y", " ", " ", "5", " ">>
\* "I'm NOT sure "
FragNotSure == <<"I", "'", "m", " ", "N", "O", "T", " ", "s", "u", "r", "e", " ">>
\* 'can'
FragCan == <<"c", "a", "n">>
\* 'not certain'
FragNotCertain == <<"n", "o", "t", " ", "c", "e", "r", "t", "a", "i", "n">>

Fragments == { FragApprox, FragNotSure, FragCan, FragNotCertain }

RECURSIVE AnswersOf(_)
AnswersOf(n) ==
  IF n = 0 THEN { << >> }
  ELSE AnswersOf(n - 1) \cup { a \o f : a \in AnswersOf(n - 1), f \in Fragments }

Answers == AnswersOf(MaxFragments)

\* 'Approximately  5'
PlainAnswer == <<"A", "p", "p", "r", "o", "x", "i", "m", "a", "t", "e", "l", "y", " ", " ", "5">>
\* "I'm NOT sure"
HedgedAnswer == <<"I", "'", "m", " ", "N", "O", "T", " ", "s", "u", "r", "e">>
\* 'approximately 5'
GoldFive == <<"a", "p", "p", "r", "o", "x", "i", "m", "a", "t", "e", "l", "y", " ", "5">>

SampleAnswers == { << >>, PlainAnswer, HedgedAnswer }
GoldAnswers == { << >>, GoldFive }

\* scores and confidences on both sides of, and on, the thresholds
ScoreValues == { 0, 10, 30, 80, 90, 100 }
ConfidenceValues == { 50, 80, 90 }

\* a ScorerConfig other than the default, with heavier weights
HeavyConfig == ScorerConfig(5, 50, 50, 100, 30)
Configs == { scorer_config, HeavyConfig }

SemanticOutputs ==
  { JudgeOutput(s, c, ok, {}, << >>, None) :
      s \in ScoreValues, c \in ConfidenceValues, ok \in BOOLEAN }

NumericOutputs ==
  { JudgeOutput(x[1], x[2], x[3], x[4], x[5], None) :
      x \in ScoreValues \X ConfidenceValues \X BOOLEAN
              \X { {}, {1} } \X { << >>, << 5 >> } }

\* the contradiction judge reports score 1 - violated; a failed call reports 0
ContradictionOutputs ==
  { JudgeOutput(IF v = "True" THEN 0 ELSE One, c, ok, {}, << >>, v) :
      c \in ConfidenceValues, ok \in BOOLEAN, v \in { None, "True", "False" } }

\* the judge outputs of the end-to-end scenario, and three failed calls
ScenarioSemantic == JudgeOutput(90, 90, TRUE, {}, << >>, None)
ScenarioNumeric == JudgeOutput(10, 80, TRUE, {1}, << 5 >>, None)
ScenarioContradiction == JudgeOutput(One, 50, TRUE, {}, << >>, "False")
FailedOutput == JudgeOutput(0, 0, FALSE, {}, << >>, None)

----------------------------------------------------------------------------
\* The state machine: one compute() call per behaviour

\* every combination of judge outputs, with a few answers and gold_answer
\* left at its default ""
JudgeSweep ==
  /\ semantic_output \in SemanticOutputs
  /\ numeric_output \in NumericOutputs
  /\ contradiction_output \in ContradictionOutputs
  /\ model_answer \in SampleAnswers
  /\ gold_answer = << >>

\* every enumerated answer, with a few judge outputs
AnswerSweep ==
  /\ \E t \in { << ScenarioSemantic, ScenarioNumeric, ScenarioContradiction >>,
                << FailedOutput, FailedOutput, FailedOutput >> } :
       /\ semantic_output = t[1]
       /\ numeric_output = t[2]
       /\ contradiction_output = t[3]
  /\ model_answer \in Answers
  /\ gold_answer \in GoldAnswers

Init ==
  /\ config \in Configs
  /\ JudgeSweep \/ AnswerSweep
  /\ result = NoResult
  /\ pc = "call"
  /\ SplitsIdle
  /\ RunIdle
  /\ StabIdle
  /\ HashIdle
  /\ LogIdle
  /\ PipeIdle
  /\ SingletonIdle

Compute ==
  /\ pc = "call"
  /\ result' = compute(config, semantic_output, numeric_output,
                       contradiction_output, model_answer, gold_answer)
  /\ pc' = "returned"
  /\ UNCHANGED << config, semantic_output, numeric_output, contradiction_output,
                  model_answer, gold_answer >>
  /\ UNCHANGED << splitVars, runVars, stabVars, hashVars, logVars, pipeVars,
                  singletonVars >>

Next == Compute

Spec == Init /\ [][Next]_vars

\* HybridScorer.compute is never called
ScorerIdle ==
  /\ config = scorer_config
  /\ semantic_output = FailedOutput
  /\ numeric_output = FailedOutput
  /\ contradiction_output = FailedOutput
  /\ model_answer = << >>
  /\ gold_answer = << >>
  /\ result = NoResult
  /\ pc = "idle"

----------------------------------------------------------------------------
\* Properties of HybridScorer.compute

Returned == pc = "returned"

Has(list, x) == \E i \in 1..Len(list) : list[i] = x

Count(list, x) == Cardinality({ i \in 1..Len(list) : list[i] = x })

\* the model answer contains, case-insensitively, a phrase of the lexicon
Hedges(answer) ==
  \E i \in 1..Len(hedging_indicators) : Contains(Lower(answer), hedging_indicators[i])

TaxonomyEntries ==
  { "semantic_judge_error", "numeric_judge_error", "contradiction_judge_error",
    "all_judges_failed" }

\* C1: when the semantic and the numeric judge both have judge_ok = FALSE,
\* final_score is 0 and "all_judges_failed" is in error_taxonomy.
C1_AllJudgesFailedInTaxonomy ==
  (Returned /\ ~semantic_output.judge_ok /\ ~numeric_output.judge_ok)
    => /\ result.final_score = 0
       /\ Has(result.error_taxonomy, "all_judges_failed")

\* C2: final_score = max(0, base_score - (consistency_penalty +
\* contradiction_penalty + hedging_penalty)) over the penalties reported in the
\* same HybridScore, and 0 <= final_score <= base_score <= 1.
C2_FinalScoreFormula ==
  Returned =>
    LET total == result.consistency_penalty + result.contradiction_penalty
                   + result.hedging_penalty
        diff == result.base_score - total
    IN /\ result.final_score = (IF diff > 0 THEN diff ELSE 0)
       /\ 0 <= result.final_score
       /\ result.final_score <= result.base_score
       /\ result.base_score <= One * One

\* a call whose penalties exceed its positive base score, so the clamp acts
C2_Witness ==
  /\ Returned
  /\ result.base_score > 0
  /\ result.consistency_penalty + result.contradiction_penalty
       + result.hedging_penalty > result.base_score
  /\ result.final_score = 0

\* C3: a contradiction judge that failed, or whose violated is None, yields
\* contradiction_violated = FALSE, no contradiction penalty and no
\* contradiction_violated flag, whatever the other inputs are.
C3_FailedContradictionIsNoEvidence ==
  (Returned /\ (~contradiction_output.judge_ok \/ contradiction_output.violated = None))
    => /\ result.contradiction_violated = FALSE
       /\ result.contradiction_penalty = 0
       /\ ~Has(result.consistency_flags, "contradiction_violated")

\* a failed contradiction call that nevertheless reports violated = True
C3_Witness ==
  /\ Returned
  /\ ~contradiction_output.judge_ok
  /\ contradiction_output.violated = "True"
  /\ contradiction_output.confidence > 0
  /\ config.contradiction_penalty > 0
  /\ result.contradiction_penalty = 0

\* C4: the base score is 0 when both judges failed, numeric_score when only the
\* semantic judge failed, semantic_score when only the numeric judge failed or
\* when the numeric output has no tolerance_used or no parsed gold values, and
\* the equal-weight average otherwise; a failed judge's score is never used.
C4_BaseScorePriority ==
  Returned =>
    result.base_score =
      IF ~semantic_output.judge_ok /\ ~numeric_output.judge_ok THEN 0
      ELSE IF ~semantic_output.judge_ok THEN numeric_output.score * One
      ELSE IF ~numeric_output.judge_ok THEN semantic_output.score * One
      ELSE IF numeric_output.tolerance_used = {}
                \/ numeric_output.parsed_gold_values = << >>
        THEN semantic_output.score * One
      ELSE (semantic_output.score * One + numeric_output.score * One) \div 2

\* the numeric judge failed while reporting a score, and is left out of the base
C4_Witness ==
  /\ Returned
  /\ semantic_output.judge_ok
  /\ ~numeric_output.judge_ok
  /\ numeric_output.score > 0
  /\ numeric_output.score # semantic_output.score
  /\ numeric_output.tolerance_used # {}
  /\ numeric_output.parsed_gold_values # << >>
  /\ result.base_score = semantic_output.score * One

\* C5: with both judges ok, semantic_score > 0.8 and numeric_score < 0.3 sets
\* numeric_error, numeric_score > 0.8 and semantic_score < 0.3 sets wrong_metric,
\* each adding consistency_penalty_weight * max(confidences); with either judge
\* failed the consistency penalty is 0 and neither flag is set.
C5_ConsistencyCrossCheck ==
  Returned =>
    LET both_ok == semantic_output.judge_ok /\ numeric_output.judge_ok
        numeric_error == both_ok /\ semantic_output.score > 80
                           /\ numeric_output.score < 30
        wrong_metric == both_ok /\ numeric_output.score > 80
                          /\ semantic_output.score < 30
        amount == config.consistency_penalty
                    * Max(semantic_output.confidence, numeric_output.confidence)
    IN /\ Has(result.consistency_flags, "numeric_error") <=> numeric_error
       /\ Has(result.consistency_flags, "wrong_metric") <=> wrong_metric
       /\ result.consistency_penalty =
            (IF numeric_error THEN amount ELSE 0) + (IF wrong_metric THEN amount ELSE 0)
       /\ ~both_ok => result.consistency_penalty = 0

\* the symmetric case fires: wrong_metric with a positive penalty
C5_Witness ==
  /\ Returned
  /\ semantic_output.judge_ok /\ numeric_output.judge_ok
  /\ numeric_output.score > 80 /\ semantic_output.score < 30
  /\ numeric_output.confidence > semantic_output.confidence
  /\ Has(result.consistency_flags, "wrong_metric")
  /\ result.consistency_penalty = config.consistency_penalty * numeric_output.confidence

IsScenario ==
  /\ config = scorer_config
  /\ semantic_output.score = 90 /\ semantic_output.confidence = 90
  /\ semantic_output.judge_ok
  /\ numeric_output.score = 10 /\ numeric_output.confidence = 80
  /\ numeric_output.judge_ok
  /\ numeric_output.tolerance_used = {1}
  /\ numeric_output.parsed_gold_values # << >>
  /\ contradiction_output.violated = "False"
  /\ contradiction_output.confidence = 50
  /\ contradiction_output.judge_ok
  /\ ~Hedges(model_answer)

\* C6: the end-to-end scenario returns base 0.5, flags exactly {numeric_error},
\* consistency_penalty 0.18, no other penalty, and final_score 0.32.
C6_EndToEndScenario ==
  (Returned /\ IsScenario)
    => /\ result.base_score = 5000
       /\ result.consistency_flags = << "numeric_error" >>
       /\ result.consistency_penalty = 1800
       /\ result.contradiction_penalty = 0
       /\ result.hedging_penalty = 0
       /\ result.final_score = 3200

\* the scenario, called with a non-empty answer that does not hedge
C6_Witness == Returned /\ IsScenario /\ model_answer # << >>

\* C7: with the contradiction judge ok and violated = True the penalty is
\* contradiction_penalty_weight * confidence and the flag is set; and raising
\* only the contradiction confidence never lowers the penalty nor raises
\* final_score.
C7_ContradictionPenaltyMonotone ==
  Returned =>
    /\ (contradiction_output.judge_ok /\ contradiction_output.violated = "True")
         => /\ result.contradiction_penalty
                 = config.contradiction_penalty * contradiction_output.confidence
            /\ Has(result.consistency_flags, "contradiction_violated")
    /\ \A c \in ConfidenceValues :
         c >= contradiction_output.confidence =>
           LET other == compute(config, semantic_output, numeric_output,
                                [contradiction_output EXCEPT !.confidence = c],
                                model_answer, gold_answer)
           IN /\ other.contradiction_penalty >= result.contradiction_penalty
              /\ other.final_score <= result.final_score

\* a contradiction is reported with less than the highest confidence, and the
\* penalty leaves a positive final score that a higher confidence would lower
C7_Witness ==
  /\ Returned
  /\ contradiction_output.judge_ok /\ contradiction_output.violated = "True"
  /\ \E c \in ConfidenceValues : c > contradiction_output.confidence
  /\ result.contradiction_penalty > 0
  /\ result.final_score > 0

\* C8: error_taxonomy holds a judge's entry exactly when that judge has
\* judge_ok = FALSE, and holds nothing outside the four taxonomy entries.
C8_ErrorTaxonomy ==
  Returned =>
    /\ Has(result.error_taxonomy, "semantic_judge_error") <=> ~semantic_output.judge_ok
    /\ Has(result.error_taxonomy, "numeric_judge_error") <=> ~numeric_output.judge_ok
    /\ Has(result.error_taxonomy, "contradiction_judge_error")
         <=> ~contradiction_output.judge_ok
    /\ \A i \in 1..Len(result.error_taxonomy) :
         result.error_taxonomy[i] \in TaxonomyEntries

\* only the contradiction judge failed
C8_Witness ==
  /\ Returned
  /\ semantic_output.judge_ok /\ numeric_output.judge_ok
  /\ ~contradiction_output.judge_ok
  /\ result.error_taxonomy = << "contradiction_judge_error" >>

\* C9: an answer containing one or more lexicon phrases, in any letter case,
\* gets hedging_penalty = hedging_penalty_weight and the flag hedged_answer
\* once; an answer containing none, or an empty answer, gets 0 and no flag.
C9_FlatHedgingPenalty ==
  Returned =>
    IF Hedges(model_answer)
      THEN /\ result.hedging_penalty = config.hedging_penalty * One
           /\ Count(result.consistency_flags, "hedged_answer") = 1
      ELSE /\ result.hedging_penalty = 0
           /\ ~Has(result.consistency_flags, "hedged_answer")

\* an answer with upper-case letters in which two lexicon phrases occur
C9_Witness ==
  /\ Returned
  /\ HedgingCount(Lower(model_answer)) >= 2
  /\ Lower(model_answer) # model_answer
  /\ result.hedging_penalty = config.hedging_penalty * One

\* C10: confidence is the mean of the three reported confidences, those of
\* failed judges included.
C10_ConfidenceMean ==
  Returned =>
    /\ result.confidence.den > 0
    /\ result.confidence.num * 3
         = (semantic_output.confidence + numeric_output.confidence
              + contradiction_output.confidence) * result.confidence.den

\* a failed judge reports a positive confidence, which enters the mean
C10_Witness ==
  /\ Returned
  /\ ~numeric_output.judge_ok
  /\ numeric_output.confidence > 0
  /\ semantic_output.judge_ok /\ contradiction_output.judge_ok
  /\ result.confidence.den = 3

----------------------------------------------------------------------------
\* KFoldCV.generate_splits

KFoldCV(n_folds, n_repeats, random_seed) ==
  [ n_folds |-> n_folds, n_repeats |-> n_repeats, random_seed |-> random_seed ]

\* One step of the pseudo-random generator.  random.Random is the standard
\* library's generator; a small linear congruential generator stands in for
\* it: like it, a deterministic function of the seed and of nothing else.
RngNext(state) == (65 * state + 17) % 1021

\* random.Random(seed): a new generator, its state fixed by the seed
Seeded(seed) == RngNext(seed % 1021)

\* Faulty variant of RepeatRng: the generator's state carries over from the
\* calls made before, as with a generator shared between calls.
RepeatRngCarried(cv, repeat_idx, ncalls) ==
  Seeded(cv.random_seed + repeat_idx + ncalls)

\* seed = self.random_seed + repeat_idx; rng = random.Random(seed).  The
\* generator is created inside the call: nothing of the ncalls calls made
\* before enters it.
RepeatRng(cv, repeat_idx, ncalls) == Seeded(cv.random_seed + repeat_idx)

\* list(range(n_samples))
Range(n) == [ i \in 1..n |-> i - 1 ]

Swap(x, i, j) == [ x EXCEPT ![i] = x[j], ![j] = x[i] ]

\* rng.shuffle(x): for i in reversed(range(1, len(x))): j = randbelow(i + 1);
\* x[i], x[j] = x[j], x[i].  i is the 0-based position.
RECURSIVE ShuffleFrom(_, _, _)
ShuffleFrom(x, i, state) ==
  IF i < 1 THEN x
  ELSE LET drawn == RngNext(state)
           j == drawn % (i + 1)
       IN ShuffleFrom(Swap(x, i + 1, j + 1), i - 1, drawn)

Shuffle(x, state) == ShuffleFrom(x, Len(x) - 1, state)

\* the Python slice x[a:b] for 0 <= a <= b <= len(x)
Slice(x, a, b) == SubSeq(x, a + 1, b)

\* Faulty variant of FoldEnd: the last fold does not absorb the remainder.
FoldEndNoRemainder(fold_idx, start, fold_size, n_folds, n_samples) ==
  start + fold_size

\* end = start + fold_size if fold_idx < self.n_folds - 1 else n_samples
FoldEnd(fold_idx, start, fold_size, n_folds, n_samples) ==
  IF fold_idx < n_folds - 1 THEN start + fold_size ELSE n_samples

TestIndices(indices, start, end) == Slice(indices, start, end)

\* Faulty variant of TrainIndices: the element after the test block is lost.
TrainIndicesSkipOne(indices, start, end) ==
  Slice(indices, 0, start)
  \o (IF end + 1 <= Len(indices) THEN Slice(indices, end + 1, Len(indices)) ELSE << >>)

\* indices[:start] + indices[end:]
TrainIndices(indices, start, end) ==
  Slice(indices, 0, start) \o Slice(indices, end, Len(indices))

\* the tuple appended to all_splits for one fold of one repeat
FoldSplit(cv, n_samples, repeat_idx, fold_idx, indices) ==
  LET fold_size == n_samples \div cv.n_folds
      start == fold_idx * fold_size
      end == FoldEnd(fold_idx, start, fold_size, cv.n_folds, n_samples)
  IN [ repeat_idx |-> repeat_idx, fold_idx |-> fold_idx,
       train_indices |-> TrainIndices(indices, start, end),
       test_indices |-> TestIndices(indices, start, end) ]

\* all_splits: for each repeat, in order, its folds in order
generate_splits(cv, n_samples, ncalls) ==
  [ s \in 1..(cv.n_repeats * cv.n_folds) |->
      LET repeat_idx == (s - 1) \div cv.n_folds
          fold_idx == (s - 1) % cv.n_folds
          indices == Shuffle(Range(n_samples), RepeatRng(cv, repeat_idx, ncalls))
      IN FoldSplit(cv, n_samples, repeat_idx, fold_idx, indices) ]

\* bounds of the enumerated instances and calls
MaxFolds == 3
MaxRepeats == 2
MaxSamples == 4

RandomSeeds == { 42, 43 }

KFoldCVs ==
  { KFoldCV(k, r, seed) : k \in 1..MaxFolds, r \in 1..MaxRepeats, seed \in RandomSeeds }

\* two instances, of equal or of different parameters
SplitsInit ==
  /\ cvs \in [ 1..2 -> KFoldCVs ]
  /\ split_calls = << >>
  /\ ScorerIdle
  /\ RunIdle
  /\ StabIdle
  /\ HashIdle
  /\ LogIdle
  /\ PipeIdle
  /\ SingletonIdle

\* one call cvs[i].generate_splits(n_samples); two calls are followed
GenerateSplits ==
  /\ Len(split_calls) < 2
  /\ \E i \in DOMAIN cvs, n_samples \in 0..MaxSamples :
       split_calls' =
         Append(split_calls,
                [ instance |-> i, self |-> cvs[i], n_samples |-> n_samples,
                  returned |-> generate_splits(cvs[i], n_samples, Len(split_calls)) ])
  /\ UNCHANGED cvs
  /\ UNCHANGED << scorerVars, runVars, stabVars, hashVars, logVars, pipeVars,
                  singletonVars >>

SplitsNext == GenerateSplits

SplitsSpec == SplitsInit /\ [][SplitsNext]_vars

----------------------------------------------------------------------------
\* Properties of KFoldCV.generate_splits

ToSet(list) == { list[i] : i \in 1..Len(list) }

\* a list without repeated elements
Distinct(list) == Cardinality(ToSet(list)) = Len(list)

\* the splits of repeat r, in the order returned
SplitsOfRepeat(splits, r) == SelectSeq(splits, LAMBDA sp : sp.repeat_idx = r)

RECURSIVE ConcatTests(_)
ConcatTests(splits) ==
  IF splits = << >> THEN << >>
  ELSE Head(splits).test_indices \o ConcatTests(Tail(splits))

\* C11: in every repeat the test sets are pairwise disjoint and cover 0..n-1,
\* so each index is a test index once per repeat and R times in all; and in
\* every split train and test are disjoint and together are 0..n-1.
C11_SplitsPartition ==
  \A c \in DOMAIN split_calls :
    LET call == split_calls[c]
        all == 0..(call.n_samples - 1)
        splits == call.returned
    IN /\ \A r \in 0..(call.self.n_repeats - 1) :
            \A x \in all :
              Cardinality({ s \in DOMAIN splits :
                              /\ splits[s].repeat_idx = r
                              /\ x \in ToSet(splits[s].test_indices) }) = 1
       /\ \A x \in all :
            Cardinality({ s \in DOMAIN splits : x \in ToSet(splits[s].test_indices) })
              = call.self.n_repeats
       /\ \A s \in DOMAIN splits :
            /\ Distinct(splits[s].test_indices)
            /\ ToSet(splits[s].train_indices) \cap ToSet(splits[s].test_indices) = {}
            /\ ToSet(splits[s].train_indices) \cup ToSet(splits[s].test_indices) = all

\* a call with more folds than samples, and one whose sample count is not a
\* multiple of the fold count
C11_Witness ==
  /\ \E c \in DOMAIN split_calls :
       /\ split_calls[c].n_samples > 0
       /\ split_calls[c].n_samples < split_calls[c].self.n_folds
  /\ \E c \in DOMAIN split_calls :
       /\ split_calls[c].n_samples > split_calls[c].self.n_folds
       /\ split_calls[c].n_samples % split_calls[c].self.n_folds # 0
       /\ split_calls[c].self.n_repeats > 1

\* C12: two calls with the same random_seed, n_samples, n_folds and n_repeats
\* return the same list, whichever instances they are made on and whatever was
\* called in between; and no call changes the instance it is made on.
C12_SplitsDeterministic ==
  /\ \A c, d \in DOMAIN split_calls :
       (/\ split_calls[c].self = split_calls[d].self
        /\ split_calls[c].n_samples = split_calls[d].n_samples)
         => split_calls[c].returned = split_calls[d].returned
  /\ \A c \in DOMAIN split_calls :
       cvs[split_calls[c].instance] = split_calls[c].self

\* two calls with equal arguments on different instances, returning shuffled lists
C12_Witness ==
  /\ Len(split_calls) = 2
  /\ split_calls[1].instance # split_calls[2].instance
  /\ split_calls[1].self = split_calls[2].self
  /\ split_calls[1].n_samples = split_calls[2].n_samples
  /\ split_calls[1].n_samples >= 3
  /\ \E s \in DOMAIN split_calls[1].returned :
       split_calls[1].returned[s].test_indices \o split_calls[1].returned[s].train_indices
         # Range(split_calls[1].n_samples)

\* C13: R * K splits ordered by repeat then fold; in each repeat the test sets,
\* in fold order, are consecutive blocks of one permutation of 0..n-1, of
\* n \div K elements each except the last, which has n \div K + n % K; and
\* train_indices is the rest of that permutation, in its order.
C13_ContiguousBlocks ==
  \A c \in DOMAIN split_calls :
    LET call == split_calls[c]
        n == call.n_samples
        K == call.self.n_folds
        R == call.self.n_repeats
        splits == call.returned
    IN /\ Len(splits) = R * K
       /\ \A s \in DOMAIN splits :
            /\ splits[s].repeat_idx = (s - 1) \div K
            /\ splits[s].fold_idx = (s - 1) % K
       /\ \A r \in 0..(R - 1) :
            LET perm == ConcatTests(SplitsOfRepeat(splits, r))
            IN /\ Len(perm) = n
               /\ ToSet(perm) = 0..(n - 1)
               /\ \A k \in 0..(K - 1) :
                    LET sp == splits[r * K + k + 1]
                        first == k * (n \div K)
                        last == IF k < K - 1 THEN (k + 1) * (n \div K) ELSE n
                    IN /\ Len(sp.test_indices)
                            = (IF k < K - 1 THEN n \div K ELSE (n \div K) + (n % K))
                       /\ sp.test_indices = SubSeq(perm, first + 1, last)
                       /\ sp.train_indices
                            = SubSeq(perm, 1, first) \o SubSeq(perm, last + 1, n)

\* a call with several repeats and folds, a remainder for the last fold, and a
\* permutation that is not the identity
C13_Witness ==
  \E c \in DOMAIN split_calls :
    /\ split_calls[c].self.n_repeats >= 2
    /\ split_calls[c].self.n_folds >= 2
    /\ split_calls[c].n_samples % split_calls[c].self.n_folds # 0
    /\ split_calls[c].n_samples \div split_calls[c].self.n_folds >= 1
    /\ ConcatTests(SplitsOfRepeat(split_calls[c].returned, 0))
         # Range(split_calls[c].n_samples)

----------------------------------------------------------------------------
\* KFoldCV.run

\* Fractions.  np.mean of a list is kept as the exact fraction sum / len, and
\* fractions are compared by cross-multiplication (denominators are positive).
Frac(num, den) == [ num |-> num, den |-> den ]
FracLt(a, b) == a.num * b.den < b.num * a.den
FracEq(a, b) == a.num * b.den = b.num * a.den
FracNeg(a) == Frac(0 - a.num, a.den)
FracSub(a, b) == Frac(a.num * b.den - b.num * a.den, a.den * b.den)

\* np.mean
Mean(xs) == Frac(Sum(xs), Len(xs))

\* np.min
RECURSIVE MinOf(_)
MinOf(xs) ==
  IF Len(xs) = 1 THEN xs[1]
  ELSE LET m == MinOf(Tail(xs)) IN IF xs[1] <= m THEN xs[1] ELSE m

\* Faulty variant of Variance: the sample variance, with n - 1 for n.
VarianceSample(xs) ==
  Frac(Len(xs) * Sum([ i \in 1..Len(xs) |-> xs[i] * xs[i] ]) - Sum(xs) * Sum(xs),
       Len(xs) * (Len(xs) - 1))

\* np.std squared: the population variance sum((x - mean)^2) / len, exactly
Variance(xs) ==
  Frac(Len(xs) * Sum([ i \in 1..Len(xs) |-> xs[i] * xs[i] ]) - Sum(xs) * Sum(xs),
       Len(xs) * Len(xs))

\* itertools.product(*values): the first axis varies slowest
RECURSIVE Product(_)
Product(values) ==
  IF values = << >> THEN << << >> >>
  ELSE LET rest == Product(Tail(values))
           first == Head(values)
       IN [ t \in 1..(Len(first) * Len(rest)) |->
              << first[((t - 1) \div Len(rest)) + 1] >> \o rest[((t - 1) % Len(rest)) + 1] ]

IndexOf(list, x) == CHOOSE i \in 1..Len(list) : list[i] = x

\* dict(zip(param_names, params_tuple))
Zip(names, tuple) == [ n \in ToSet(names) |-> tuple[IndexOf(names, n)] ]

\* metrics.get(key, 0)
Get(metrics, key) == IF key \in DOMAIN metrics THEN metrics[key] ELSE 0

\* [tasks[i] for i in indices]
TasksAt(task_list, indices) == [ i \in 1..Len(indices) |-> task_list[indices[i] + 1] ]

CVResult(split, params, metrics) ==
  [ fold_idx |-> split.fold_idx, repeat_idx |-> split.repeat_idx,
    train_indices |-> split.train_indices, test_indices |-> split.test_indices,
    params |-> params, metrics |-> metrics ]

\* key = tuple(result.params[n] for n in param_names)
ComboKey(res, names) == [ i \in 1..Len(names) |-> res.params[names[i]] ]

\* the keys of combo_results, in insertion order
RECURSIVE KeysInOrder(_, _, _)
KeysInOrder(results, names, seen) ==
  IF results = << >> THEN seen
  ELSE LET key == ComboKey(Head(results), names)
       IN KeysInOrder(Tail(results), names,
                      IF key \in ToSet(seen) THEN seen ELSE Append(seen, key))

Column(results, key) == [ i \in 1..Len(results) |-> Get(results[i].metrics, key) ]

\* combo_stats[combo]
ComboStats(results, names, combo) ==
  LET own == SelectSeq(results, LAMBDA r : ComboKey(r, names) = combo)
      scores == Column(own, "score")
  IN [ combo |-> combo,
       params |-> Zip(names, combo),
       mean_score |-> Mean(scores),
       std_score_squared |-> Variance(scores),
       worst_score |-> MinOf(scores),
       mean_false_passes |-> Mean(Column(own, "false_passes")),
       mean_false_fails |-> Mean(Column(own, "false_fails")) ]

\* Faulty variant of SelectionKey: the mean score is compared first.
SelectionKeyScoreFirst(stats) ==
  << FracNeg(stats.mean_score), stats.mean_false_passes, stats.mean_false_fails >>

\* the key of the lexicographic selection
SelectionKey(stats) ==
  << stats.mean_false_passes, stats.mean_false_fails, FracNeg(stats.mean_score) >>

\* the order of Python tuples of three numbers
TupleLt(a, b) ==
  \/ FracLt(a[1], b[1])
  \/ FracEq(a[1], b[1]) /\ FracLt(a[2], b[2])
  \/ FracEq(a[1], b[1]) /\ FracEq(a[2], b[2]) /\ FracLt(a[3], b[3])

\* Faulty variant of Replaces: a later item of equal key replaces the best.
ReplacesOnTie(candidate, best) == ~TupleLt(SelectionKey(best), SelectionKey(candidate))

\* min(): a later item replaces the best so far only if its key is smaller
Replaces(candidate, best) == TupleLt(SelectionKey(candidate), SelectionKey(best))

RECURSIVE MinFrom(_, _, _)
MinFrom(stats, i, best) ==
  IF i > Len(stats) THEN best
  ELSE MinFrom(stats, i + 1, IF Replaces(stats[i], stats[best]) THEN i ELSE best)

\* _aggregate_results: (best_params, cv_stats)
aggregate_results(cv, results, combos, names) ==
  LET keys == KeysInOrder(results, names, << >>)
      combo_stats == [ i \in 1..Len(keys) |-> ComboStats(results, names, keys[i]) ]
      best == combo_stats[MinFrom(combo_stats, 2, 1)]
      best_params == Zip(names, best.combo)
  IN [ best_params |-> best_params,
       cv_stats |->
         [ best_params |-> best_params,
           best_mean_score |-> best.mean_score,
           best_std_score_squared |-> best.std_score_squared,
           best_worst_score |-> best.worst_score,
           all_combo_stats |-> combo_stats,
           n_folds |-> cv.n_folds,
           n_repeats |-> cv.n_repeats,
           n_param_combos |-> Len(combos) ] ]

\* 0.1 in hundredths
CriticalRange == 10

\* Faulty variant of IsCritical: a range of exactly 0.1 counts as critical.
IsCriticalInclusive(range) == ~FracLt(range, Frac(CriticalRange, 1))

\* (max_score - min_score) > 0.1
IsCritical(range) == FracLt(Frac(CriticalRange, 1), range)

\* the values of by_value's keys, in insertion order
RECURSIVE ValuesInOrder(_, _, _)
ValuesInOrder(results, name, seen) ==
  IF results = << >> THEN seen
  ELSE LET val == Head(results).params[name]
       IN ValuesInOrder(Tail(results), name,
                        IF val \in ToSet(seen) THEN seen ELSE Append(seen, val))

\* max() and min() of a list of fractions
RECURSIVE FracMax(_)
FracMax(fs) ==
  IF Len(fs) = 1 THEN fs[1]
  ELSE LET m == FracMax(Tail(fs)) IN IF FracLt(fs[1], m) THEN m ELSE fs[1]

RECURSIVE FracMin(_)
FracMin(fs) ==
  IF Len(fs) = 1 THEN fs[1]
  ELSE LET m == FracMin(Tail(fs)) IN IF FracLt(m, fs[1]) THEN m ELSE fs[1]

\* sensitivity[param_name]; the entry "present" tells whether the key is set
SensitivityOf(results, names, best_params, param_name) ==
  LET filtered ==
        SelectSeq(results,
                  LAMBDA r : \A n \in ToSet(names) \ { param_name } :
                               r.params[n] = best_params[n])
      values == ValuesInOrder(filtered, param_name, << >>)
      by_value ==
        [ i \in 1..Len(values) |->
            [ value |-> values[i],
              mean |-> Mean(Column(SelectSeq(filtered,
                                             LAMBDA r : r.params[param_name] = values[i]),
                                   "score")) ] ]
      means == [ i \in 1..Len(by_value) |-> by_value[i].mean ]
  IN IF by_value # << >>
       THEN [ present |-> TRUE,
              range |-> FracSub(FracMax(means), FracMin(means)),
              by_value |-> by_value,
              critical |-> IsCritical(FracSub(FracMax(means), FracMin(means))) ]
       ELSE [ present |-> FALSE ]

\* _sensitivity_analysis
sensitivity_analysis(results, names, best_params) ==
  [ n \in ToSet(names) |-> SensitivityOf(results, names, best_params, n) ]

\* the CalibrationResult run() returns once all_results is complete
CalibrationResult(cv, grid, results) ==
  LET combos == Product(grid.values)
      agg == aggregate_results(cv, results, combos, grid.names)
  IN [ returned |-> TRUE,
       best_params |-> agg.best_params,
       cv_stats |-> agg.cv_stats,
       all_results |-> results,
       sensitivity_analysis |->
         sensitivity_analysis(results, grid.names, agg.best_params) ]

\* Inputs

\* how many tasks run() is given, at most
MaxTasks == 3

TaskList(n) == [ i \in 1..n |-> 100 + i ]

ParamGrid(names, values) == [ names |-> names, values |-> values ]

GridOne == ParamGrid(<< "consistency_penalty" >>, << << 10, 20, 30 >> >>)
GridPair == ParamGrid(<< "consistency_penalty" >>, << << 10, 20 >> >>)
GridTwo ==
  ParamGrid(<< "consistency_penalty", "hedging_penalty" >>,
            << << 10, 20 >>, << 0, 10 >> >>)

\* an instance with one split, two with two splits, and the grids run on each
RunSetups ==
  { << KFoldCV(1, 1, 42), GridOne >>,
    << KFoldCV(1, 1, 42), GridTwo >>,
    << KFoldCV(2, 1, 42), GridPair >>,
    << KFoldCV(1, 2, 42), GridPair >> }

Metrics(score, false_passes, false_fails) ==
  [ score |-> score, false_passes |-> false_passes, false_fails |-> false_fails ]

\* what evaluate_fn may return: scores in hundredths with counts of false
\* passes and false fails, and a dict that holds a score only
MetricsValues ==
  { Metrics(70, 0, 2), Metrics(90, 1, 0), Metrics(82, 0, 2), Metrics(60, 0, 1),
    Metrics(0, 0, 2), Metrics(10, 0, 2), [ score |-> 75 ] }

\* the outcome of an evaluate_fn call that raised
Raised == [ raised |-> TRUE ]

RunInit ==
  /\ run_pc = "start"
  /\ \E setup \in RunSetups : run_cv = setup[1] /\ param_grid = setup[2]
  /\ tasks \in { TaskList(n) : n \in 2..MaxTasks }
  /\ run_splits = << >>
  /\ cell = 0
  /\ all_results = << >>
  /\ invocations = << >>
  /\ calibration = NoCalibration
  /\ ScorerIdle
  /\ SplitsIdle
  /\ StabIdle
  /\ HashIdle
  /\ LogIdle
  /\ PipeIdle
  /\ SingletonIdle

\* run() up to the loop over the combinations
RunBegin ==
  /\ run_pc = "start"
  /\ run_splits' = generate_splits(run_cv, Len(tasks), 0)
  /\ run_pc' = "loop"
  /\ UNCHANGED << run_cv, tasks, param_grid, cell, all_results, invocations, calibration >>
  /\ UNCHANGED << scorerVars, splitVars, stabVars, hashVars, logVars, pipeVars,
                  singletonVars >>

param_combos == Product(param_grid.values)

\* the combination and the split of the cell being evaluated: the combinations
\* are the outer loop, the splits the inner one
CellParams == Zip(param_grid.names, param_combos[(cell \div Len(run_splits)) + 1])
CellSplit == run_splits[(cell % Len(run_splits)) + 1]

\* the call evaluate_fn(train_tasks, test_tasks, params) of the current cell,
\* with the split it is made for and its outcome
CellCall(outcome) ==
  [ repeat_idx |-> CellSplit.repeat_idx,
    fold_idx |-> CellSplit.fold_idx,
    train_tasks |-> TasksAt(tasks, CellSplit.train_indices),
    test_tasks |-> TasksAt(tasks, CellSplit.test_indices),
    params |-> CellParams,
    outcome |-> outcome ]

\* evaluate_fn returns metrics: the CVResult is appended; after the last cell
\* the results are aggregated and run() returns
EvaluateReturns ==
  /\ run_pc = "loop"
  /\ \E metrics \in MetricsValues :
       LET results == Append(all_results, CVResult(CellSplit, CellParams, metrics))
       IN /\ all_results' = results
          /\ invocations' = Append(invocations, CellCall(metrics))
          /\ IF cell + 1 = Len(param_combos) * Len(run_splits)
               THEN /\ run_pc' = "returned"
                    /\ calibration' = CalibrationResult(run_cv, param_grid, results)
               ELSE /\ run_pc' = "loop"
                    /\ calibration' = calibration
  /\ cell' = cell + 1
  /\ UNCHANGED << run_cv, tasks, param_grid, run_splits >>
  /\ UNCHANGED << scorerVars, splitVars, stabVars, hashVars, logVars, pipeVars,
                  singletonVars >>

\* evaluate_fn raises: nothing in run() catches the exception, which ends the call
EvaluateRaises ==
  /\ run_pc = "loop"
  /\ invocations' = Append(invocations, CellCall(Raised))
  /\ run_pc' = "raised"
  /\ UNCHANGED << run_cv, tasks, param_grid, run_splits, cell, all_results, calibration >>
  /\ UNCHANGED << scorerVars, splitVars, stabVars, hashVars, logVars, pipeVars,
                  singletonVars >>

RunNext == RunBegin \/ EvaluateReturns \/ EvaluateRaises

RunSpec == RunInit /\ [][RunNext]_vars

----------------------------------------------------------------------------
\* Properties of KFoldCV.run

RunEnded == run_pc \in { "returned", "raised" }

\* dict(zip(param_names, params_tuple)) of the j-th combination of the grid
ParamsOf(j) == Zip(param_grid.names, param_combos[j])

\* the calls of evaluate_fn made for combination j and split sp
CallsFor(j, sp) ==
  { i \in DOMAIN invocations :
      /\ invocations[i].params = ParamsOf(j)
      /\ invocations[i].repeat_idx = sp.repeat_idx
      /\ invocations[i].fold_idx = sp.fold_idx }

\* the entries of all_results of combination j and split sp
ResultsFor(j, sp) ==
  { i \in DOMAIN all_results :
      /\ all_results[i].params = ParamsOf(j)
      /\ all_results[i].repeat_idx = sp.repeat_idx
      /\ all_results[i].fold_idx = sp.fold_idx }

\* C14: when run() has ended, evaluate_fn has been called exactly once for
\* every pair of a combination of the grid's product and a split of
\* generate_splits(len(tasks)), with the tasks at the split's train and test
\* indices and the combination as params, and all_results holds one CVResult
\* per pair, |combinations| * R * K in all, each with the metrics its own call
\* returned.
C14_OncePerPair ==
  RunEnded =>
    LET expected == generate_splits(run_cv, Len(tasks), 0)
    IN /\ Len(invocations) = Len(param_combos) * run_cv.n_repeats * run_cv.n_folds
       /\ Len(all_results) = Len(param_combos) * run_cv.n_repeats * run_cv.n_folds
       /\ \A j \in DOMAIN param_combos, s \in DOMAIN expected :
            /\ Cardinality(CallsFor(j, expected[s])) = 1
            /\ Cardinality(ResultsFor(j, expected[s])) = 1
            /\ \A i \in CallsFor(j, expected[s]) :
                 /\ invocations[i].train_tasks = TasksAt(tasks, expected[s].train_indices)
                 /\ invocations[i].test_tasks = TasksAt(tasks, expected[s].test_indices)
                 /\ \A k \in ResultsFor(j, expected[s]) :
                      /\ all_results[k].metrics = invocations[i].outcome
                      /\ all_results[k].train_indices = expected[s].train_indices
                      /\ all_results[k].test_indices = expected[s].test_indices

\* the same, for the calls of run() in which every evaluate_fn call returns
C14_OncePerPairWhenNoneRaises == run_pc = "returned" => C14_OncePerPair

\* the mean of a metric over the results of combination j, a missing metric
\* counting 0
MeanOver(j, key) ==
  Mean(Column(SelectSeq(all_results, LAMBDA r : r.params = ParamsOf(j)), key))

\* combination j is before combination k in the lexicographic order of
\* (mean false_passes, mean false_fails, -mean score)
LexBefore(j, k) ==
  \/ FracLt(MeanOver(j, "false_passes"), MeanOver(k, "false_passes"))
  \/ /\ FracEq(MeanOver(j, "false_passes"), MeanOver(k, "false_passes"))
     /\ FracLt(MeanOver(j, "false_fails"), MeanOver(k, "false_fails"))
  \/ /\ FracEq(MeanOver(j, "false_passes"), MeanOver(k, "false_passes"))
     /\ FracEq(MeanOver(j, "false_fails"), MeanOver(k, "false_fails"))
     /\ FracLt(MeanOver(k, "score"), MeanOver(j, "score"))

\* combinations j and k are tied on all three criteria
Tied(j, k) ==
  /\ FracEq(MeanOver(j, "false_passes"), MeanOver(k, "false_passes"))
  /\ FracEq(MeanOver(j, "false_fails"), MeanOver(k, "false_fails"))
  /\ FracEq(MeanOver(j, "score"), MeanOver(k, "score"))

\* combination j has the given means
HasMeans(j, false_passes, false_fails, score) ==
  /\ FracEq(MeanOver(j, "false_passes"), Frac(false_passes, 1))
  /\ FracEq(MeanOver(j, "false_fails"), Frac(false_fails, 1))
  /\ FracEq(MeanOver(j, "score"), Frac(score, 1))

\* the combinations of the grid that best_params is
BestIndices == { j \in DOMAIN param_combos : ParamsOf(j) = calibration.best_params }

\* C15: the best_params run() returns is a combination of the grid that no
\* other combination is before in the lexicographic order of (mean
\* false_passes, mean false_fails, -mean score): fewer mean false passes win
\* over a higher mean score or fewer false fails, and the mean score decides
\* only among combinations tied on both false rates.  A combination with means
\* {0, 2, 0.70} is chosen over one with {1, 0, 0.90}.
C15_LexicographicSelection ==
  calibration.returned =>
    /\ Cardinality(BestIndices) = 1
    /\ calibration.cv_stats.best_params = calibration.best_params
    /\ \A b \in BestIndices :
         /\ \A j \in DOMAIN param_combos : ~LexBefore(j, b)
         /\ FracEq(calibration.cv_stats.best_mean_score, MeanOver(b, "score"))
         /\ \A j \in DOMAIN param_combos : HasMeans(j, 0, 2, 70) => ~HasMeans(b, 1, 0, 90)

\* the grid holds combination A {0, 2, 0.70} and combination B {1, 0, 0.90}, B
\* first, and A is selected
C15_Witness ==
  /\ calibration.returned
  /\ HasMeans(1, 1, 0, 90)
  /\ \E b \in BestIndices : b > 1 /\ HasMeans(b, 0, 2, 70)
  /\ \A j \in DOMAIN param_combos : HasMeans(j, 1, 0, 90) \/ HasMeans(j, 0, 2, 70)

\* C16: among combinations tied on mean false_passes, mean false_fails and
\* mean score, the best_params run() returns is the first in the iteration
\* order of the grid's Cartesian product.
C16_FirstOfTheTied ==
  calibration.returned =>
    \A b \in BestIndices : \A j \in DOMAIN param_combos : Tied(j, b) => b <= j

\* the selected combination is tied with a later one, over two splits each
C16_Witness ==
  /\ calibration.returned
  /\ Len(run_splits) = 2
  /\ \E b \in BestIndices : \E j \in DOMAIN param_combos : j > b /\ Tied(j, b)

\* the results whose every parameter other than p has its best_params value
OthersAtBest(p) ==
  SelectSeq(all_results,
            LAMBDA r : \A n \in DOMAIN r.params :
                         n # p => r.params[n] = calibration.best_params[n])

\* the mean score of those of them in which p has value v
GroupMean(p, v) ==
  Mean(Column(SelectSeq(OthersAtBest(p), LAMBDA r : r.params[p] = v), "score"))

GridValues(p) == ToSet(param_grid.values[IndexOf(param_grid.names, p)])

\* max group mean - min group mean is num / den
RangeIs(p, num, den) ==
  \E hi \in GridValues(p), lo \in GridValues(p) :
    /\ \A v \in GridValues(p) : ~FracLt(GroupMean(p, hi), GroupMean(p, v))
    /\ \A v \in GridValues(p) : ~FracLt(GroupMean(p, v), GroupMean(p, lo))
    /\ FracEq(FracSub(GroupMean(p, hi), GroupMean(p, lo)), Frac(num, den))

\* C17: for every grid parameter p the sensitivity entry groups, by p's value,
\* the results whose other parameters have their best_params values; by_value
\* holds every grid value of p with its group's mean score; range is the
\* largest group mean minus the smallest; and p is critical exactly if range
\* is more than 0.1: a range of 0.12 is critical, ranges of 0.08 and of
\* exactly 0.1 are not.
C17_Sensitivity ==
  calibration.returned =>
    \A p \in ToSet(param_grid.names) :
      LET entry == calibration.sensitivity_analysis[p]
      IN /\ entry.present
         /\ { entry.by_value[i].value : i \in DOMAIN entry.by_value } = GridValues(p)
         /\ Len(entry.by_value) = Cardinality(GridValues(p))
         /\ \A i \in DOMAIN entry.by_value :
              FracEq(entry.by_value[i].mean, GroupMean(p, entry.by_value[i].value))
         /\ RangeIs(p, entry.range.num, entry.range.den)
         /\ entry.critical <=> entry.range.num > CriticalRange * entry.range.den
         /\ RangeIs(p, 12, 1) => entry.critical
         /\ RangeIs(p, 8, 1) => ~entry.critical
         /\ RangeIs(p, 10, 1) => ~entry.critical

\* in a grid of two parameters, one has a range of exactly 0.1 over a strict
\* part of the results and is not critical, the other has a larger range and
\* is critical
C17_Witness ==
  /\ calibration.returned
  /\ Len(param_grid.names) = 2
  /\ \E p \in ToSet(param_grid.names), q \in ToSet(param_grid.names) :
       /\ RangeIs(p, 10, 1)
       /\ Len(OthersAtBest(p)) < Len(all_results)
       /\ ~calibration.sensitivity_analysis[p].critical
       /\ q # p
       /\ calibration.sensitivity_analysis[q].critical

\* C18: an evaluate_fn call that raises does not end run(): the cell is
\* recorded in all_results, the remaining cells are evaluated, and run()
\* returns a CalibrationResult over all the cells.
C18_RaiseIsNotFatal ==
  /\ run_pc # "raised"
  /\ \A i \in DOMAIN invocations :
       invocations[i].outcome = Raised => Len(all_results) >= i
  /\ (RunEnded /\ \E i \in DOMAIN invocations : invocations[i].outcome = Raised) =>
       /\ calibration.returned
       /\ Len(calibration.all_results) = Len(param_combos) * Len(run_splits)

----------------------------------------------------------------------------
\* StabilityTester.test

DefaultNRuns == 5
DefaultStabilityThreshold == 5

\* a stability_threshold of 0.5, which a caller may pass
HalfThreshold == 50

StabilityTester(n_runs, stability_threshold) ==
  [ n_runs |-> n_runs, stability_threshold |-> stability_threshold ]

\* np.max
RECURSIVE MaxOf(_)
MaxOf(xs) ==
  IF Len(xs) = 1 THEN xs[1]
  ELSE LET m == MaxOf(Tail(xs)) IN IF xs[1] >= m THEN xs[1] ELSE m

\* Faulty variant of IsStable: the comparison is the wrong way round.
IsStableInverted(std_squared, stability_threshold) ==
  std_squared.num > stability_threshold * stability_threshold * std_squared.den

\* Faulty variant of IsStable: a std equal to the threshold counts as stable.
IsStableInclusive(std_squared, stability_threshold) ==
  std_squared.num <= stability_threshold * stability_threshold * std_squared.den

\* std < self.stability_threshold, for a threshold that is not negative: the
\* std is kept as its square, and squaring keeps the order
IsStable(std_squared, stability_threshold) ==
  std_squared.num < stability_threshold * stability_threshold * std_squared.den

StabilityResult(self, task, scores) ==
  [ n_runs |-> self.n_runs,
    task_id |-> task.task_id,
    scores |-> scores,
    mean |-> Mean(scores),
    std_squared |-> Variance(scores),
    min |-> MinOf(scores),
    max |-> MaxOf(scores),
    is_stable |-> IsStable(Variance(scores), self.stability_threshold) ]

\* np.mean(stds): the mean of the square roots of the given squares, not
\* evaluated
MeanOfRoots(stds_squared) == [ mean_of_roots_of |-> stds_squared ]

\* the StabilityReport built from per_task
StabilityReport(results) ==
  LET stds_squared == [ i \in DOMAIN results |-> results[i].std_squared ]
      stable == SelectSeq(results, LAMBDA r : r.is_stable)
      unstable == SelectSeq(results, LAMBDA r : ~r.is_stable)
  IN [ returned |-> TRUE,
       per_task_results |-> results,
       overall_stability |->
         IF results # << >> THEN Frac(Len(stable), Len(results)) ELSE Frac(0, 1),
       avg_std |-> IF results # << >> THEN MeanOfRoots(stds_squared) ELSE MeanOfRoots(<< >>),
       max_std_squared |->
         IF results # << >> THEN FracMax(stds_squared) ELSE Frac(0, 1),
       unstable_tasks |-> [ i \in DOMAIN unstable |-> unstable[i].task_id ] ]

\* Inputs

\* how many tasks test() is given, at most
MaxStabTasks == 2

Task(task_id) == [ task_id |-> task_id ]

StabTaskList(n) == [ i \in 1..n |-> Task(200 + i) ]

\* the scores, in hundredths, an evaluate_fn of any behaviour returns
ScoreReturns == { 0, 70, 75, 80, 100 }

\* the testers and the evaluate_fn each is run with: "any" returns any of
\* ScoreReturns or raises, "constant" always returns 1.0, "alternating"
\* returns 0.0 and 1.0 in turn for each task
StabSetups ==
  { << StabilityTester(2, DefaultStabilityThreshold), "any" >>,
    << StabilityTester(2, HalfThreshold), "any" >>,
    << StabilityTester(DefaultNRuns, DefaultStabilityThreshold), "constant" >>,
    << StabilityTester(DefaultNRuns, DefaultStabilityThreshold), "alternating" >> }

\* what the call number run_idx (from 0) for a task may return
Returns(fn, run_idx) ==
  CASE fn = "constant" -> { One }
    [] fn = "alternating" -> { IF run_idx % 2 = 0 THEN 0 ELSE One }
    [] OTHER -> ScoreReturns

StabInit ==
  /\ stab_pc = "start"
  /\ \E setup \in StabSetups : tester = setup[1] /\ evaluator = setup[2]
  /\ stab_tasks \in { StabTaskList(n) : n \in 0..MaxStabTasks }
  /\ task_scores = << >>
  /\ per_task = << >>
  /\ stab_invocations = << >>
  /\ report = NoReport
  /\ ScorerIdle
  /\ SplitsIdle
  /\ RunIdle
  /\ HashIdle
  /\ LogIdle
  /\ PipeIdle
  /\ SingletonIdle

\* test() with no task: the loop body never runs
TestBegin ==
  /\ stab_pc = "start"
  /\ IF stab_tasks = << >>
       THEN stab_pc' = "returned" /\ report' = StabilityReport(<< >>)
       ELSE stab_pc' = "loop" /\ report' = report
  /\ UNCHANGED << tester, stab_tasks, evaluator, task_scores, per_task, stab_invocations >>
  /\ UNCHANGED << scorerVars, splitVars, runVars, hashVars, logVars, pipeVars,
                  singletonVars >>

\* the task of the outer loop
CurrentTask == stab_tasks[Len(per_task) + 1]

\* evaluate_fn(task) returns a score: it is appended to scores; after the
\* last run of a task its StabilityResult is appended to per_task, and after
\* the last task the report is returned
StabEvaluateReturns ==
  /\ stab_pc = "loop"
  /\ \E score \in Returns(evaluator, Len(task_scores)) :
       LET scores == Append(task_scores, score)
           results == Append(per_task, StabilityResult(tester, CurrentTask, scores))
       IN /\ stab_invocations' =
               Append(stab_invocations, [ task |-> CurrentTask, outcome |-> score ])
          /\ IF Len(scores) < tester.n_runs
               THEN /\ task_scores' = scores
                    /\ UNCHANGED << per_task, stab_pc, report >>
               ELSE /\ task_scores' = << >>
                    /\ per_task' = results
                    /\ IF Len(results) = Len(stab_tasks)
                         THEN stab_pc' = "returned" /\ report' = StabilityReport(results)
                         ELSE stab_pc' = "loop" /\ report' = report
  /\ UNCHANGED << tester, stab_tasks, evaluator >>
  /\ UNCHANGED << scorerVars, splitVars, runVars, hashVars, logVars, pipeVars,
                  singletonVars >>

\* evaluate_fn(task) raises: nothing in test() catches the exception, which
\* ends the call
StabEvaluateRaises ==
  /\ stab_pc = "loop"
  /\ evaluator = "any"
  /\ stab_invocations' =
       Append(stab_invocations, [ task |-> CurrentTask, outcome |-> Raised ])
  /\ stab_pc' = "raised"
  /\ UNCHANGED << tester, stab_tasks, evaluator, task_scores, per_task, report >>
  /\ UNCHANGED << scorerVars, splitVars, runVars, hashVars, logVars, pipeVars,
                  singletonVars >>

StabNext == TestBegin \/ StabEvaluateReturns \/ StabEvaluateRaises

StabSpec == StabInit /\ [][StabNext]_vars

----------------------------------------------------------------------------
\* Properties of StabilityTester.test

TestEnded == stab_pc \in { "returned", "raised" }

\* the calls of evaluate_fn made with the t-th task, in order
CallsOfTask(t) == SelectSeq(stab_invocations, LAMBDA c : c.task = stab_tasks[t])

\* C19: when test() has ended, evaluate_fn has been called exactly n_runs
\* times with each task, n_runs * |tasks| times in all, and the StabilityResult
\* of a task holds exactly the n_runs scores returned for that task, in order.
C19_NRunsPerTask ==
  TestEnded =>
    /\ Len(stab_invocations) = tester.n_runs * Len(stab_tasks)
    /\ Len(per_task) = Len(stab_tasks)
    /\ \A t \in DOMAIN stab_tasks :
         /\ Len(CallsOfTask(t)) = tester.n_runs
         /\ per_task[t].task_id = stab_tasks[t].task_id
         /\ per_task[t].n_runs = tester.n_runs
         /\ per_task[t].scores = [ i \in 1..tester.n_runs |-> CallsOfTask(t)[i].outcome ]

\* the same, for the calls of test() in which every evaluate_fn call returns
C19_NRunsPerTaskWhenNoneRaises == stab_pc = "returned" => C19_NRunsPerTask

\* n^3 times the population variance of xs: the sum of (n * x - sum)^2
ScaledSquaredDeviations(xs) ==
  Sum([ i \in DOMAIN xs |-> (Len(xs) * xs[i] - Sum(xs)) * (Len(xs) * xs[i] - Sum(xs)) ])

\* the population standard deviation of xs is below the threshold
StdBelow(xs, threshold) ==
  ScaledSquaredDeviations(xs) < threshold * threshold * Len(xs) * Len(xs) * Len(xs)

StdEquals(xs, threshold) ==
  ScaledSquaredDeviations(xs) = threshold * threshold * Len(xs) * Len(xs) * Len(xs)

\* the positions, in the task list, of the tasks that are not stable
UnstablePositions == { t \in DOMAIN report.per_task_results : ~report.per_task_results[t].is_stable }

PositionOf(task_id) == CHOOSE t \in DOMAIN stab_tasks : stab_tasks[t].task_id = task_id

ConstantReportIsStable ==
  /\ \A t \in DOMAIN report.per_task_results :
       /\ report.per_task_results[t].std_squared.num = 0
       /\ report.per_task_results[t].std_squared.den > 0
       /\ report.per_task_results[t].is_stable
  /\ Len(report.per_task_results) = Len(stab_tasks)
  /\ report.unstable_tasks = << >>

AlternatingScores == << 0, One, 0, One, 0 >>

\* C22 as stated: with n_runs = 5 and the default threshold, a task whose
\* scores are 0.0, 1.0, 0.0, 1.0, 0.0 has the population std 0.5 and is not
\* stable.
C22_AlternatingStdIsHalf ==
  (report.returned /\ tester = StabilityTester(DefaultNRuns, DefaultStabilityThreshold)) =>
    \A t \in DOMAIN report.per_task_results :
      report.per_task_results[t].scores = AlternatingScores =>
        /\ FracEq(report.per_task_results[t].std_squared, Frac(Half * Half, 1))
        /\ ~report.per_task_results[t].is_stable

\* C22 amended: such a task has the population variance 0.24, that is the std
\* sqrt(0.24), about 0.49, and is not stable.
C22_AlternatingVariance ==
  (report.returned /\ tester = StabilityTester(DefaultNRuns, DefaultStabilityThreshold)) =>
    \A t \in DOMAIN report.per_task_results :
      report.per_task_results[t].scores = AlternatingScores =>
        /\ FracEq(report.per_task_results[t].std_squared, Frac(24 * One, 1))
        /\ FracEq(report.per_task_results[t].mean, Frac(40, 1))
        /\ ~report.per_task_results[t].is_stable

\* a report with a task of scores 0.0, 1.0, 0.0, 1.0, 0.0, as evaluate_fn
\* returned them
C22_Witness ==
  /\ report.returned
  /\ evaluator = "alternating"
  /\ tester = StabilityTester(DefaultNRuns, DefaultStabilityThreshold)
  /\ stab_tasks # << >>
  /\ report.per_task_results[1].scores = AlternatingScores
  /\ [ i \in 1..DefaultNRuns |-> stab_invocations[i].outcome ] = AlternatingScores

\* C23: test() never raises: after an evaluate_fn call has raised, test()
\* still evaluates the remaining tasks and returns a StabilityReport with a
\* result for every task.
C23_TestNeverRaises ==
  /\ stab_pc # "raised"
  /\ (TestEnded /\ \E i \in DOMAIN stab_invocations : stab_invocations[i].outcome = Raised) =>
       /\ report.returned
       /\ Len(report.per_task_results) = Len(stab_tasks)

----------------------------------------------------------------------------
\* core.hashing

\* A str is a sequence of one-character strings, a dict the sequence of its
\* items in insertion order, its keys distinct; a value is an int or a dict.
IntValue(n) == [ int |-> n ]
DictValue(items) == [ items |-> items ]
Item(key, value) == [ key |-> key, value |-> value ]
IsDict(v) == "items" \in DOMAIN v

\* the keys used, in the order of their code points
KeyNames == << "a", "b", "c" >>

\* the order of str keys that sorted() uses
KeyBefore(j, k) == IndexOf(KeyNames, j) < IndexOf(KeyNames, k)

\* the items sorted by key: the item with i - 1 keys before its own is the i-th
SortedItems(items) ==
  [ i \in 1..Len(items) |->
      items[CHOOSE n \in 1..Len(items) :
              Cardinality({ m \in 1..Len(items) : KeyBefore(items[m].key, items[n].key) })
                = i - 1] ]

\* Faulty variant of DumpItems: the items are written in insertion order.
DumpItemsUnsorted(items) == items

\* sort_keys=True: the items are written sorted by key
DumpItems(items) == SortedItems(items)

\* str(n) of a small int
Digits == << "0", "1", "2", "3", "4", "5", "6", "7", "8", "9" >>
IntStr(n) == << Digits[n + 1] >>

\* json.dumps(data, sort_keys=True, ensure_ascii=True), with the default
\* separators ", " and ": "
RECURSIVE dumps(_)
RECURSIVE DumpsFrom(_, _)
DumpsFrom(items, i) ==
  IF i > Len(items) THEN << >>
  ELSE (IF i > 1 THEN << ",", " " >> ELSE << >>)
         \o << "\"", items[i].key, "\"", ":", " " >> \o dumps(items[i].value)
         \o DumpsFrom(items, i + 1)

dumps(value) ==
  IF IsDict(value)
    THEN << "{" >> \o DumpsFrom(DumpItems(value.items), 1) \o << "}" >>
    ELSE IntStr(value.int)

\* the code points of the characters written
Ord ==
  [ c \in { "{", "}", "\"", ":", ",", " ", "a", "b", "c",
            "0", "1", "2", "3", "4", "5", "6", "7", "8", "9" } |->
      CASE c = "{" -> 123 [] c = "}" -> 125 [] c = "\"" -> 34 [] c = ":" -> 58
        [] c = "," -> 44 [] c = " " -> 32
        [] c = "a" -> 97 [] c = "b" -> 98 [] c = "c" -> 99
        [] OTHER -> 48 + IndexOf(Digits, c) - 1 ]

\* content.encode("utf-8") of an ASCII str: one byte per character
EncodeUtf8(content) == [ i \in 1..Len(content) |-> Ord[content[i]] ]

\* hasher.hexdigest() after the updates: the digest of the named hash function
\* over the bytes, not evaluated; different functions or bytes give different
\* digests
HexDigest(hasher, bytes) == [ hasher |-> hasher, bytes |-> bytes ]

\* the hash function of the hasher created for an algorithm argument
Hasher(algorithm, use_xxhash) ==
  IF algorithm = "xxhash64" /\ use_xxhash THEN "xxhash64"
  ELSE IF algorithm = "sha256" THEN "sha256"
  ELSE IF algorithm = "md5" THEN "md5"
  ELSE "sha256"

\* Faulty variant of Label: the fallback keeps the requested name.
LabelAsRequested(algorithm, use_xxhash) == algorithm

\* the name written before the colon: the else branch resets algorithm
Label(algorithm, use_xxhash) ==
  IF algorithm = "xxhash64" /\ use_xxhash THEN algorithm
  ELSE IF algorithm = "sha256" THEN algorithm
  ELSE IF algorithm = "md5" THEN algorithm
  ELSE "sha256"

\* f"{algorithm}:{hasher.hexdigest()}"
HashStr(label, hexdigest) == [ algorithm |-> label, hexdigest |-> hexdigest ]

hash_bytes(bytes, algorithm, use_xxhash) ==
  HashStr(Label(algorithm, use_xxhash), HexDigest(Hasher(algorithm, use_xxhash), bytes))

hash_string(content, algorithm, use_xxhash) ==
  hash_bytes(EncodeUtf8(content), algorithm, use_xxhash)

hash_dict(data, algorithm, use_xxhash) == hash_string(dumps(data), algorithm, use_xxhash)

FileNotFoundError == [ raised |-> "FileNotFoundError" ]

\* a file is its bytes, read in chunks and fed to the hasher in order
hash_file(file, algorithm, use_xxhash) ==
  IF ~file.exists THEN FileNotFoundError
  ELSE hash_bytes(file.bytes, algorithm, use_xxhash)

\* Inputs

\* how many keys the hashed dict has, at most
MaxKeys == 2

\* the sequences of at most MaxKeys items with distinct keys and the given values
ItemSeqs(values) ==
  UNION { { items \in [ 1..n -> { Item(k, v) : k \in ToSet(KeyNames), v \in values } ] :
              \A i \in 1..n, j \in 1..n : i # j => items[i].key # items[j].key } :
          n \in 0..MaxKeys }

Leaves == { IntValue(1), IntValue(2) }

\* the dicts nested in the hashed dict
InnerDicts ==
  { DictValue(<< >>),
    DictValue(<< Item("a", IntValue(1)), Item("b", IntValue(2)) >>),
    DictValue(<< Item("b", IntValue(2)), Item("a", IntValue(1)) >>) }

Dicts == { DictValue(items) : items \in ItemSeqs(Leaves \cup InnerDicts) }

\* the dicts that hold the pairs of the given value in any insertion order, at
\* every nesting level
RECURSIVE Reorderings(_)
Reorderings(value) ==
  IF ~IsDict(value) THEN { value }
  ELSE IF value.items = << >> THEN { value }
  ELSE LET n == Len(value.items)
       IN { DictValue([ i \in 1..n |-> Item(value.items[p[i]].key, vs[i]) ]) :
              << p, vs >> \in
                { pv \in Permutations(1..n) \X [ 1..n -> Leaves \cup InnerDicts ] :
                    \A i \in 1..n : pv[2][i] \in Reorderings(value.items[pv[1][i]].value) } }

Algorithms == { "sha256", "md5", "xxhash64", "blake2b", "SHA256" }

Contents == { << >>, << "a" >>, << "a", "b" >> }

File(exists, bytes) == [ exists |-> exists, bytes |-> bytes ]

Files == { File(FALSE, << >>), File(TRUE, << >>), File(TRUE, << 97, 98 >>) }

\* the pairs of dicts that hold the same pairs
DictPairs == UNION { { << d, e >> : e \in Reorderings(d) } : d \in Dicts }

\* two hash_dict calls on dicts holding the same pairs, or one call of
\* hash_string or of hash_file, with algorithm argument a
HashPlans(a) ==
  { << [ fn |-> "hash_dict", data |-> de[1], algorithm |-> a ],
       [ fn |-> "hash_dict", data |-> de[2], algorithm |-> a ] >> : de \in DictPairs } \cup
  { << [ fn |-> "hash_string", content |-> c, algorithm |-> a ] >> : c \in Contents } \cup
  { << [ fn |-> "hash_file", file |-> f, algorithm |-> a ] >> : f \in Files }

HashInit ==
  /\ USE_XXHASH \in BOOLEAN
  /\ \E a \in Algorithms : hash_args \in HashPlans(a)
  /\ hash_calls = << >>
  /\ ScorerIdle
  /\ SplitsIdle
  /\ RunIdle
  /\ StabIdle
  /\ LogIdle
  /\ PipeIdle
  /\ SingletonIdle

\* the next call to make
HashPending(fn) ==
  /\ Len(hash_calls) < Len(hash_args)
  /\ hash_args[Len(hash_calls) + 1].fn = fn

HashArg == hash_args[Len(hash_calls) + 1]

HashString ==
  /\ HashPending("hash_string")
  /\ hash_calls' =
       Append(hash_calls,
              [ fn |-> "hash_string", algorithm |-> HashArg.algorithm,
                content |-> HashArg.content,
                returned |-> hash_string(HashArg.content, HashArg.algorithm, USE_XXHASH) ])
  /\ UNCHANGED << USE_XXHASH, hash_args >>
  /\ UNCHANGED << scorerVars, splitVars, runVars, stabVars, logVars, pipeVars,
                  singletonVars >>

HashDict ==
  /\ HashPending("hash_dict")
  /\ hash_calls' =
       Append(hash_calls,
              [ fn |-> "hash_dict", algorithm |-> HashArg.algorithm,
                data |-> HashArg.data,
                returned |-> hash_dict(HashArg.data, HashArg.algorithm, USE_XXHASH) ])
  /\ UNCHANGED << USE_XXHASH, hash_args >>
  /\ UNCHANGED << scorerVars, splitVars, runVars, stabVars, logVars, pipeVars,
                  singletonVars >>

HashFile ==
  /\ HashPending("hash_file")
  /\ hash_calls' =
       Append(hash_calls,
              [ fn |-> "hash_file", algorithm |-> HashArg.algorithm,
                file |-> HashArg.file,
                returned |-> hash_file(HashArg.file, HashArg.algorithm, USE_XXHASH) ])
  /\ UNCHANGED << USE_XXHASH, hash_args >>
  /\ UNCHANGED << scorerVars, splitVars, runVars, stabVars, logVars, pipeVars,
                  singletonVars >>

HashNext == HashString \/ HashDict \/ HashFile

HashSpec == HashInit /\ [][HashNext]_vars

----------------------------------------------------------------------------
\* Properties of core.hashing

\* two values hold the same key/value pairs at every nesting level
RECURSIVE SamePairs(_, _)
SamePairs(v, w) ==
  IF IsDict(v) # IsDict(w) THEN FALSE
  ELSE IF ~IsDict(v) THEN v.int = w.int
  ELSE /\ { v.items[i].key : i \in DOMAIN v.items } = { w.items[i].key : i \in DOMAIN w.items }
       /\ \A i \in DOMAIN v.items, j \in DOMAIN w.items :
            v.items[i].key = w.items[j].key => SamePairs(v.items[i].value, w.items[j].value)

HashDictCalls == { i \in DOMAIN hash_calls : hash_calls[i].fn = "hash_dict" }

\* C24: two hash_dict calls with the same algorithm argument on dicts that hold
\* the same key/value pairs at every nesting level, in whatever insertion
\* order, return the same string.
C24_HashDictOrderIndependent ==
  \A i \in HashDictCalls, j \in HashDictCalls :
    (/\ hash_calls[i].algorithm = hash_calls[j].algorithm
     /\ SamePairs(hash_calls[i].data, hash_calls[j].data))
      => hash_calls[i].returned = hash_calls[j].returned

\* hash_dict({"a": 1, "b": 2}) and hash_dict({"b": 2, "a": 1}) have both returned
C24_Witness ==
  /\ Len(hash_calls) = 2
  /\ hash_calls[1].fn = "hash_dict"
  /\ hash_calls[1].data = DictValue(<< Item("a", IntValue(1)), Item("b", IntValue(2)) >>)
  /\ hash_calls[2].data = DictValue(<< Item("b", IntValue(2)), Item("a", IntValue(1)) >>)
  /\ hash_calls[1].returned = hash_calls[2].returned

\* the call returned a string, it did not raise
HashReturned(call) == "algorithm" \in DOMAIN call.returned

\* C25: the string hash_string, hash_dict or hash_file returns names, before
\* the colon, the hash function that produced the digest: the requested one for
\* sha256, for md5 and for xxhash64 when the library is there, and sha256 for
\* xxhash64 without the library and for any other name.
C25_LabelNamesTheDigest ==
  \A i \in DOMAIN hash_calls :
    HashReturned(hash_calls[i]) =>
      LET requested == hash_calls[i].algorithm
          returned == hash_calls[i].returned
      IN /\ returned.algorithm = returned.hexdigest.hasher
         /\ returned.algorithm \in { "sha256", "md5", "xxhash64" }
         /\ requested \in { "sha256", "md5" } => returned.algorithm = requested
         /\ (requested = "xxhash64" /\ USE_XXHASH) => returned.algorithm = "xxhash64"
         /\ (requested = "xxhash64" /\ ~USE_XXHASH) => returned.algorithm = "sha256"
         /\ requested \notin { "sha256", "md5", "xxhash64" } => returned.algorithm = "sha256"

\* hash_file was asked for xxhash64 without the library and returned a sha256
\* digest labelled sha256
C25_Witness ==
  /\ ~USE_XXHASH
  /\ \E i \in DOMAIN hash_calls :
       /\ hash_calls[i].fn = "hash_file"
       /\ hash_calls[i].algorithm = "xxhash64"
       /\ HashReturned(hash_calls[i])
       /\ hash_calls[i].returned.algorithm = "sha256"
       /\ hash_calls[i].returned.hexdigest.hasher = "sha256"

----------------------------------------------------------------------------
\* Further properties of HybridScorer.compute

\* exactly one of the semantic and the numeric judge failed
ExactlyOneFailed == semantic_output.judge_ok # numeric_output.judge_ok

\* C27: when exactly one of the semantic and the numeric judge has
\* judge_ok = FALSE, the failure is in error_taxonomy only: consistency_flags
\* holds no semantic_judge_unavailable, and nothing but the labels of applied
\* penalties, contradiction_violated and hedged_answer.
C27_FailureIsNoFlag ==
  (Returned /\ ExactlyOneFailed) =>
    /\ Has(result.error_taxonomy,
           IF semantic_output.judge_ok THEN "numeric_judge_error" ELSE "semantic_judge_error")
    /\ ~Has(result.consistency_flags, "semantic_judge_unavailable")
    /\ \A i \in DOMAIN result.consistency_flags :
         result.consistency_flags[i] \in { "contradiction_violated", "hedged_answer" }

\* the same for a failed numeric judge alone, where the code adds no flag
C27_NumericFailureIsNoFlag ==
  (Returned /\ semantic_output.judge_ok /\ ~numeric_output.judge_ok) => C27_FailureIsNoFlag

\* both judges succeeded and the numeric output has no tolerance or no parsed
\* gold value, with a high semantic and a low numeric score
IrrelevantNumericDisagrees ==
  /\ semantic_output.judge_ok
  /\ numeric_output.judge_ok
  /\ numeric_output.tolerance_used = {} \/ numeric_output.parsed_gold_values = << >>
  /\ semantic_output.score > 80
  /\ numeric_output.score < 30

\* C29: when both judges succeeded and the numeric output is not relevant to
\* the base score, which is then the semantic score, the cross-check still
\* runs on the numeric score: a semantic score above 0.8 with a numeric score
\* below 0.3 sets numeric_error and subtracts consistency_penalty times the
\* larger of the two confidences.
C29_IrrelevantNumericStillPenalised ==
  (Returned /\ IrrelevantNumericDisagrees) =>
    /\ result.base_score = semantic_output.score * One
    /\ Has(result.consistency_flags, "numeric_error")
    /\ result.consistency_penalty =
         config.consistency_penalty * Max(semantic_output.confidence, numeric_output.confidence)
    /\ result.final_score =
         Max(0, result.base_score - (result.consistency_penalty
                                       + result.contradiction_penalty
                                       + result.hedging_penalty))

\* such a result, whose final score is lowered by the consistency penalty alone
C29_Witness ==
  /\ Returned
  /\ IrrelevantNumericDisagrees
  /\ numeric_output.tolerance_used = {}
  /\ result.contradiction_penalty = 0
  /\ result.hedging_penalty = 0
  /\ result.consistency_penalty > 0
  /\ result.final_score = result.base_score - result.consistency_penalty

----------------------------------------------------------------------------
\* AuditLogger.log_trace, called once by each of several threads on one logger

\* how many threads call log_trace
MaxThreads == 2

Threads == 1..MaxThreads

TaskTrace(task_id, source, error_taxonomy) ==
  [ task_id |-> task_id, source |-> source, error_taxonomy |-> error_taxonomy ]

\* the traces thread t may log
TracesOf(t) ==
  { TaskTrace(t, source, error_taxonomy) :
      source \in { "canonical", "adversarial" },
      error_taxonomy \in { << >>, << "semantic_judge_error" >> } }

\* Faulty variant of LockIsFree: the lock never blocks.
LockIsFreeAlways(l) == TRUE

\* threading.Lock: it can be acquired only when no thread holds it
LockIsFree(l) == l = NoThread

\* the line trace.to_json() + "\n" reaches the file in two pieces, the second
\* of which ends it
Piece(trace, part) == [ task_id |-> trace.task_id, part |-> part ]

LogInit ==
  /\ traces \in { f \in [ Threads -> UNION { TracesOf(t) : t \in Threads } ] :
                    \A t \in Threads : f[t] \in TracesOf(t) }
  /\ log_pc = [ t \in Threads |-> "call" ]
  /\ lock = NoThread
  /\ canonical_count = 0
  /\ adversarial_count = 0
  /\ error_count = 0
  /\ loaded = [ t \in Threads |-> 0 ]
  /\ canonical_file = << >>
  /\ adversarial_file = << >>
  /\ ScorerIdle
  /\ SplitsIdle
  /\ RunIdle
  /\ StabIdle
  /\ HashIdle
  /\ PipeIdle
  /\ SingletonIdle

\* with self._lock: entered
Acquire(t) ==
  /\ log_pc[t] = "call"
  /\ LockIsFree(lock)
  /\ lock' = t
  /\ log_pc' = [ log_pc EXCEPT ![t] = "count" ]
  /\ UNCHANGED << traces, canonical_count, adversarial_count, error_count, loaded,
                  canonical_file, adversarial_file >>
  /\ UNCHANGED << scorerVars, splitVars, runVars, stabVars, hashVars, pipeVars,
                  singletonVars >>

\* the counter of the trace's source is read
LoadCount(t) ==
  /\ log_pc[t] = "count"
  /\ loaded' = [ loaded EXCEPT ![t] = IF traces[t].source = "adversarial"
                                        THEN adversarial_count ELSE canonical_count ]
  /\ log_pc' = [ log_pc EXCEPT ![t] = "store" ]
  /\ UNCHANGED << traces, lock, canonical_count, adversarial_count, error_count,
                  canonical_file, adversarial_file >>
  /\ UNCHANGED << scorerVars, splitVars, runVars, stabVars, hashVars, pipeVars,
                  singletonVars >>

\* and written back, one more
StoreCount(t) ==
  /\ log_pc[t] = "store"
  /\ IF traces[t].source = "adversarial"
       THEN adversarial_count' = loaded[t] + 1 /\ UNCHANGED canonical_count
       ELSE canonical_count' = loaded[t] + 1 /\ UNCHANGED adversarial_count
  /\ log_pc' = [ log_pc EXCEPT ![t] =
                   IF traces[t].error_taxonomy # << >> THEN "errors" ELSE "write" ]
  /\ UNCHANGED << traces, lock, error_count, loaded, canonical_file, adversarial_file >>
  /\ UNCHANGED << scorerVars, splitVars, runVars, stabVars, hashVars, pipeVars,
                  singletonVars >>

\* self.error_count += len(trace.error_taxonomy): read
LoadErrors(t) ==
  /\ log_pc[t] = "errors"
  /\ loaded' = [ loaded EXCEPT ![t] = error_count ]
  /\ log_pc' = [ log_pc EXCEPT ![t] = "errors_store" ]
  /\ UNCHANGED << traces, lock, canonical_count, adversarial_count, error_count,
                  canonical_file, adversarial_file >>
  /\ UNCHANGED << scorerVars, splitVars, runVars, stabVars, hashVars, pipeVars,
                  singletonVars >>

\* and written back
StoreErrors(t) ==
  /\ log_pc[t] = "errors_store"
  /\ error_count' = loaded[t] + Len(traces[t].error_taxonomy)
  /\ log_pc' = [ log_pc EXCEPT ![t] = "write" ]
  /\ UNCHANGED << traces, lock, canonical_count, adversarial_count, loaded,
                  canonical_file, adversarial_file >>
  /\ UNCHANGED << scorerVars, splitVars, runVars, stabVars, hashVars, pipeVars,
                  singletonVars >>

\* the file is opened for appending and the first piece of the line reaches it
WriteLine(t) ==
  /\ log_pc[t] = "write"
  /\ IF traces[t].source = "adversarial"
       THEN /\ adversarial_file' = Append(adversarial_file, Piece(traces[t], "head"))
            /\ UNCHANGED canonical_file
       ELSE /\ canonical_file' = Append(canonical_file, Piece(traces[t], "head"))
            /\ UNCHANGED adversarial_file
  /\ log_pc' = [ log_pc EXCEPT ![t] = "close" ]
  /\ UNCHANGED << traces, lock, canonical_count, adversarial_count, error_count, loaded >>
  /\ UNCHANGED << scorerVars, splitVars, runVars, stabVars, hashVars, pipeVars,
                  singletonVars >>

\* the file is closed, which writes the rest of the line
CloseFile(t) ==
  /\ log_pc[t] = "close"
  /\ IF traces[t].source = "adversarial"
       THEN /\ adversarial_file' = Append(adversarial_file, Piece(traces[t], "tail"))
            /\ UNCHANGED canonical_file
       ELSE /\ canonical_file' = Append(canonical_file, Piece(traces[t], "tail"))
            /\ UNCHANGED adversarial_file
  /\ log_pc' = [ log_pc EXCEPT ![t] = "release" ]
  /\ UNCHANGED << traces, lock, canonical_count, adversarial_count, error_count, loaded >>
  /\ UNCHANGED << scorerVars, splitVars, runVars, stabVars, hashVars, pipeVars,
                  singletonVars >>

\* with self._lock: left, and log_trace returns
Release(t) ==
  /\ log_pc[t] = "release"
  /\ lock' = NoThread
  /\ log_pc' = [ log_pc EXCEPT ![t] = "done" ]
  /\ UNCHANGED << traces, canonical_count, adversarial_count, error_count, loaded,
                  canonical_file, adversarial_file >>
  /\ UNCHANGED << scorerVars, splitVars, runVars, stabVars, hashVars, pipeVars,
                  singletonVars >>

LogNext ==
  \E t \in Threads :
    \/ Acquire(t)
    \/ LoadCount(t)
    \/ StoreCount(t)
    \/ LoadErrors(t)
    \/ StoreErrors(t)
    \/ WriteLine(t)
    \/ CloseFile(t)
    \/ Release(t)

LogSpec == LogInit /\ [][LogNext]_vars

----------------------------------------------------------------------------
\* Properties of AuditLogger.log_trace

\* the thread is between its counter update and the end of its file append
InAppend(t) == log_pc[t] \in { "count", "store", "errors", "errors_store", "write", "close" }

\* every piece of the file is part of one complete line: a head is followed by
\* the tail of the same trace, unless it is the last piece and its writer is
\* still writing, and a tail follows the head of the same trace
WholeLines(file) ==
  \A i \in DOMAIN file :
    /\ file[i].part = "head" =>
         IF i < Len(file)
           THEN file[i + 1] = [ task_id |-> file[i].task_id, part |-> "tail" ]
           ELSE log_pc[file[i].task_id] = "close"
    /\ file[i].part = "tail" =>
         i > 1 /\ file[i - 1] = [ task_id |-> file[i].task_id, part |-> "head" ]

\* the number of lines ended in the file
Lines(file) == Cardinality({ i \in DOMAIN file : file[i].part = "tail" })

AllReturned == \A t \in Threads : log_pc[t] = "done"

\* C26: at most one thread at a time is between its counter update and the
\* end of its file append; every trace file consists of whole lines, one per
\* trace; and when all calls have returned, canonical_count +
\* adversarial_count is the number of log_trace calls and the number of lines
\* written.
C26_SerializedAppends ==
  /\ Cardinality({ t \in Threads : InAppend(t) }) <= 1
  /\ WholeLines(canonical_file)
  /\ WholeLines(adversarial_file)
  /\ AllReturned =>
       /\ canonical_count + adversarial_count = Cardinality(Threads)
       /\ canonical_count = Lines(canonical_file)
       /\ adversarial_count = Lines(adversarial_file)
       /\ Len(canonical_file) = 2 * Lines(canonical_file)
       /\ Len(adversarial_file) = 2 * Lines(adversarial_file)
       /\ \A t \in Threads :
            Cardinality({ i \in DOMAIN canonical_file : canonical_file[i].task_id = t })
              = (IF traces[t].source = "adversarial" THEN 0 ELSE 2)

\* all threads have logged a canonical trace and thread 1 was not the first
C26_Witness ==
  /\ AllReturned
  /\ \A t \in Threads : traces[t].source = "canonical"
  /\ canonical_count = Cardinality(Threads)
  /\ Lines(canonical_file) = Cardinality(Threads)
  /\ canonical_file[1].task_id # 1

----------------------------------------------------------------------------
\* The contradiction pipeline: ContradictionJudge.judge behind the
\* /judge/contradiction endpoint, MCPClient.call_contradiction_judge, and
\* HybridScorer.compute on what the client returns

\* the dict ContradictionJudge.judge returns; error is None or a message
Verdict(score, violated, confidence, error) ==
  [ score |-> score, violated |-> violated, confidence |-> confidence, error |-> error ]

JudgeErrorMessage == "judge error"

\* ContradictionJudgeResponse(**result): score and confidence in [0, 1],
\* violated a bool
ValidResponse(data) ==
  /\ data.score \in 0..One
  /\ data.confidence \in 0..One
  /\ data.violated \in { "True", "False" }

HttpResponse(status_code, body) == [ status_code |-> status_code, body |-> body ]

\* dict.get(key, default)
GetOr(data, key, default) == IF key \in DOMAIN data THEN data[key] ELSE default

\* the JudgeOutput call_contradiction_judge builds from a response body
ClientOutput(data) ==
  JudgeOutput(GetOr(data, "score", 0), GetOr(data, "confidence", 0), TRUE,
              {}, << >>, GetOr(data, "violated", "False"))

\* the JudgeOutput call_contradiction_judge builds when the call raised
ClientFailure == JudgeOutput(0, 0, FALSE, {}, << >>, None)

PipeInputs ==
  { [ config |-> c, semantic_output |-> s, numeric_output |-> n,
      model_answer |-> a, gold_answer |-> << >> ] :
      c \in Configs, s \in { ScenarioSemantic, FailedOutput },
      n \in { ScenarioNumeric, FailedOutput }, a \in SampleAnswers }

PipeInit ==
  /\ pipe_pc = "request"
  /\ pipe_inputs \in PipeInputs
  /\ judge_result = << >>
  /\ http_response = << >>
  /\ client_output = << >>
  /\ hybrid_score = NoResult
  /\ ScorerIdle
  /\ SplitsIdle
  /\ RunIdle
  /\ StabIdle
  /\ HashIdle
  /\ LogIdle
  /\ SingletonIdle

\* self.client.post(...) reaches the server
RequestArrives ==
  /\ pipe_pc = "request"
  /\ pipe_pc' = "judge"
  /\ UNCHANGED << pipe_inputs, judge_result, http_response, client_output, hybrid_score >>
  /\ UNCHANGED << scorerVars, splitVars, runVars, stabVars, hashVars, logVars,
                  singletonVars >>

\* the model answers with a verdict that parses and validates
JudgeReturnsVerdict ==
  /\ pipe_pc = "judge"
  /\ \E violated \in BOOLEAN, confidence \in ConfidenceValues :
       judge_result' = Verdict(IF violated THEN 0 ELSE One,
                               IF violated THEN "True" ELSE "False",
                               confidence, None)
  /\ pipe_pc' = "endpoint"
  /\ UNCHANGED << pipe_inputs, http_response, client_output, hybrid_score >>
  /\ UNCHANGED << scorerVars, splitVars, runVars, stabVars, hashVars, logVars,
                  singletonVars >>

\* the completion call, json.loads or the validation raises inside judge()
JudgeCatchesError ==
  /\ pipe_pc = "judge"
  /\ judge_result' = Verdict(0, "True", 0, JudgeErrorMessage)
  /\ pipe_pc' = "endpoint"
  /\ UNCHANGED << pipe_inputs, http_response, client_output, hybrid_score >>
  /\ UNCHANGED << scorerVars, splitVars, runVars, stabVars, hashVars, logVars,
                  singletonVars >>

\* the endpoint wraps the dict of judge() in its response model
EndpointResponds ==
  /\ pipe_pc = "endpoint"
  /\ http_response' = IF ValidResponse(judge_result)
                        THEN HttpResponse(200, judge_result)
                        ELSE HttpResponse(500, << >>)
  /\ pipe_pc' = "client"
  /\ UNCHANGED << pipe_inputs, judge_result, client_output, hybrid_score >>
  /\ UNCHANGED << scorerVars, splitVars, runVars, stabVars, hashVars, logVars,
                  singletonVars >>

\* judge_contradiction raises before judge() runs (get_judge fails)
EndpointRaises ==
  /\ pipe_pc = "judge"
  /\ http_response' = HttpResponse(500, << >>)
  /\ pipe_pc' = "client"
  /\ UNCHANGED << pipe_inputs, judge_result, client_output, hybrid_score >>
  /\ UNCHANGED << scorerVars, splitVars, runVars, stabVars, hashVars, logVars,
                  singletonVars >>

\* a 200 response is read and turned into a JudgeOutput
ClientReturns ==
  /\ pipe_pc = "client"
  /\ http_response.status_code = 200
  /\ client_output' = ClientOutput(http_response.body)
  /\ pipe_pc' = "score"
  /\ UNCHANGED << pipe_inputs, judge_result, http_response, hybrid_score >>
  /\ UNCHANGED << scorerVars, splitVars, runVars, stabVars, hashVars, logVars,
                  singletonVars >>

\* post() raises (no connection, timeout), raise_for_status() raises on a 500,
\* or reading the response raises
ClientCatchesError ==
  /\ pipe_pc \in { "request", "client" }
  /\ client_output' = ClientFailure
  /\ pipe_pc' = "score"
  /\ UNCHANGED << pipe_inputs, judge_result, http_response, hybrid_score >>
  /\ UNCHANGED << scorerVars, splitVars, runVars, stabVars, hashVars, logVars,
                  singletonVars >>

\* the agent hands the three judge outputs to the scorer
PipelineScore ==
  /\ pipe_pc = "score"
  /\ hybrid_score' = compute(pipe_inputs.config, pipe_inputs.semantic_output,
                             pipe_inputs.numeric_output, client_output,
                             pipe_inputs.model_answer, pipe_inputs.gold_answer)
  /\ pipe_pc' = "done"
  /\ UNCHANGED << pipe_inputs, judge_result, http_response, client_output >>
  /\ UNCHANGED << scorerVars, splitVars, runVars, stabVars, hashVars, logVars,
                  singletonVars >>

PipeNext ==
  \/ RequestArrives
  \/ JudgeReturnsVerdict
  \/ JudgeCatchesError
  \/ EndpointResponds
  \/ EndpointRaises
  \/ ClientReturns
  \/ ClientCatchesError
  \/ PipelineScore

PipeSpec == PipeInit /\ [][PipeNext]_vars

----------------------------------------------------------------------------
\* Properties of the contradiction pipeline

Scored == pipe_pc = "done"

\* the HTTP call failed in the client
ClientCallFailed == ~client_output.judge_ok

\* the judge hit an error while producing its verdict, and the client read
\* the response it sent
JudgeFailed == client_output.judge_ok /\ http_response.body.error # None

NoContradictionEvidence ==
  /\ hybrid_score.contradiction_violated = FALSE
  /\ hybrid_score.contradiction_penalty = 0
  /\ ~Has(hybrid_score.consistency_flags, "contradiction_violated")

\* C28: when the contradiction judgment fails, in the client's HTTP call or
\* inside the judge, the HybridScore has contradiction_violated = FALSE,
\* contradiction_penalty = 0 and no contradiction_violated flag.
C28_FailedJudgmentIsNoEvidence ==
  (Scored /\ (ClientCallFailed \/ JudgeFailed)) => NoContradictionEvidence

\* the half of it that the code keeps: a call that failed in the client
C28_ClientFailureIsNoEvidence ==
  (Scored /\ ClientCallFailed) => NoContradictionEvidence

\* a judge error reaches the scorer as a violation
C28_JudgeErrorScored ==
  /\ Scored
  /\ JudgeFailed
  /\ hybrid_score.contradiction_violated
  /\ Has(hybrid_score.consistency_flags, "contradiction_violated")

----------------------------------------------------------------------------
\* get_scorer: the module-level scorer singleton

\* how many get_scorer calls one behaviour makes, at most
MaxGetCalls == 4

\* the config argument: the empty set for None, { c } for the ScorerConfig c
NoConfig == {}
ConfigArgs == { NoConfig } \cup { { c } : c \in Configs }

\* HybridScorer.__init__: self.config = config or scorer_config (a ScorerConfig
\* object is always truthy)
HybridScorer(arg) ==
  [ config |-> IF arg # NoConfig THEN CHOOSE c \in arg : TRUE ELSE scorer_config ]

\* Faulty variant of get_scorer: creates a scorer only when there is none.
get_scorerOnlyIfNone(instance, objects, arg) ==
  IF instance = 0
    THEN [ scorer_instance |-> Len(objects) + 1,
           instances |-> Append(objects, HybridScorer(arg)),
           returned |-> Len(objects) + 1 ]
    ELSE [ scorer_instance |-> instance, instances |-> objects, returned |-> instance ]

\* get_scorer(config) with _scorer_instance = instance (0 for None, else the
\* index in objects of the HybridScorer it refers to)
get_scorer(instance, objects, arg) ==
  IF instance = 0 \/ arg # NoConfig
    THEN [ scorer_instance |-> Len(objects) + 1,
           instances |-> Append(objects, HybridScorer(arg)),
           returned |-> Len(objects) + 1 ]
    ELSE [ scorer_instance |-> instance, instances |-> objects, returned |-> instance ]

SingletonInit ==
  /\ scorer_instance = 0
  /\ instances = << >>
  /\ get_calls = << >>
  /\ ScorerIdle
  /\ SplitsIdle
  /\ RunIdle
  /\ StabIdle
  /\ HashIdle
  /\ LogIdle
  /\ PipeIdle

\* some caller calls get_scorer, with or without a config
GetScorer ==
  /\ Len(get_calls) < MaxGetCalls
  /\ \E arg \in ConfigArgs :
       LET out == get_scorer(scorer_instance, instances, arg)
       IN /\ scorer_instance' = out.scorer_instance
          /\ instances' = out.instances
          /\ get_calls' = Append(get_calls, [ config |-> arg, returned |-> out.returned ])
  /\ UNCHANGED << scorerVars, splitVars, runVars, stabVars, hashVars, logVars, pipeVars >>

SingletonNext == GetScorer

SingletonSpec == SingletonInit /\ [][SingletonNext]_vars

----------------------------------------------------------------------------
\* Properties of get_scorer

\* the config of the scorer that call k returned, as it is now
ConfigOfCall(k) == instances[get_calls[k].returned].config

\* call k got a scorer that no earlier call got
FreshAt(k) == \A j \in 1..(k - 1) : get_calls[j].returned # get_calls[k].returned

\* what each call returns: without a config the instance that was current, or
\* a new one with the global config when there was none; with a config a new
\* instance using it, which becomes the current one; and every scorer handed
\* out still has the config it was created with
CallsReturnCurrentOrReplace ==
  /\ \A k \in 1..Len(get_calls) :
       IF get_calls[k].config # NoConfig
         THEN ConfigOfCall(k) \in get_calls[k].config /\ FreshAt(k)
         ELSE IF k = 1
           THEN ConfigOfCall(k) = scorer_config
           ELSE get_calls[k].returned = get_calls[k - 1].returned
  /\ get_calls # << >> => scorer_instance = get_calls[Len(get_calls)].returned

\* C30 as stated: calls return the current instance or replace it, and after
\* any call that passed a config every later call without a config returns a
\* scorer using that config.
C30_AnyPassedConfigWins ==
  /\ CallsReturnCurrentOrReplace
  /\ \A j, k \in 1..Len(get_calls) :
       (j < k /\ get_calls[j].config # NoConfig /\ get_calls[k].config = NoConfig)
         => ConfigOfCall(k) \in get_calls[j].config

\* C30, amended: calls return the current instance or replace it, and a call
\* without a config returns a scorer using the config most recently passed
\* before it.
C30_LatestPassedConfigWins ==
  /\ CallsReturnCurrentOrReplace
  /\ \A j, k \in 1..Len(get_calls) :
       ( /\ j < k
         /\ get_calls[j].config # NoConfig
         /\ \A i \in (j + 1)..k : get_calls[i].config = NoConfig )
         => ConfigOfCall(k) \in get_calls[j].config

\* two callers passed different configs, and a later call without a config
\* got the scorer of the second, while the first caller's scorer kept its config
C30_Witness ==
  \E j, k, l \in 1..Len(get_calls) :
    /\ j < k /\ k < l
    /\ get_calls[j].config # NoConfig
    /\ get_calls[k].config # NoConfig
    /\ get_calls[j].config # get_calls[k].config
    /\ get_calls[l].config = NoConfig
    /\ get_calls[l].returned = get_calls[k].returned
    /\ ConfigOfCall(l) \in get_calls[k].config
    /\ ConfigOfCall(j) \in get_calls[j].config

====
